---------------------------- MODULE Spec2Model ----------------------------
(***************************************************************************)
(* Job leasing and contact reconciliation of the VPS OCR service           *)
(* (vps-ocr-service/app).  The module holds several specifications over    *)
(* one set of variables, one per subsystem:                                *)
(*                                                                         *)
(*   SpecLease   concurrent claimants of the AI labeling queue             *)
(*               (Database.get_next_ai_labeling_job and the handler's      *)
(*               final status write)                                       *)
(*   SpecSingleClaimant  the same queue served by one claimant            *)
(*   SpecLeaseLive  SpecLease with claimants that keep polling and         *)
(*               handlers that end                                         *)
(*   SpecPoller  one poller (import, labeling or OCR): the poll loop, the  *)
(*               job handler, its failure path and stop()                  *)
(*   SpecDispatch  the import poller with a claim that may hand out a job  *)
(*               in a status _process_job does not expect                  *)
(*   SpecRouter  the mode router of the analysis phase                     *)
(*   SpecAnalyze one import job in analysis: loading the contact snapshot  *)
(*               and analysing the CSV rows (analyze_rows)                 *)
(*   SpecExecute one import job in execution: the analysed rows are        *)
(*               created or merged into the contacts (execute_import)      *)
(*   SpecScenario one import job from the parsed CSV to the final stats:   *)
(*               column mapping, role deduction, analysis, routing and     *)
(*               execution (ContactImportPoller._process_job)              *)
(*   SpecParseDate  one cell of a column mapped to date_of_birth           *)
(*               (_apply_mapping and _parse_date)                          *)
(*   SpecResume  the same job whose execution is run a second time after   *)
(*               the worker stopped or lost its final status write         *)
(*   SpecSnapshot  the analysis part of SpecScenario, for a user who may   *)
(*               have a namesake of a CSV row among the contacts           *)
(*                                                                         *)
(* A specification leaves the variables of the other subsystems at their   *)
(* idle value.                                                             *)
(***************************************************************************)
EXTENDS Integers, Sequences, FiniteSets, TLC

VARIABLES
    \* ---- AI labeling queue (ai_labeling_queue table) and its claimants
    q_status,       \* job -> committed status
    q_error,        \* job -> error_message column
    q_retry,        \* job -> retry_count column
    q_lock,         \* job -> transaction holding the row lock (0: none)
    q_doc,          \* job -> document_id (the joined documents row)
    tx,             \* claimant -> [pc, row]: position inside the claim / handler
    last_claim,     \* claimant -> what its last claim call returned
    returned        \* job -> number of times a claim call returned it

leaseVars == <<q_status, q_error, q_retry, q_lock, q_doc, tx, last_claim, returned>>

VARIABLES
    \* ---- one poller and its queue
    p_kind,         \* "import" | "labeling" | "ocr"
    j_status,       \* job -> persisted status
    j_error,        \* job -> persisted error message
    is_running,     \* self.is_running
    pc,             \* the await point the poll task is suspended at
    cur,            \* the job the handler is working on (0: none)
    cur_status,     \* job_data["status"] as returned by the claim
    cur_mode,       \* job_data["mode"]
    exc,            \* the exception the handler's except branch holds
    consecutive_errors,
    raised,         \* job -> text of the exception its last handler run raised
    write_raised    \* whether the last failed-status write itself raised

pollerVars == <<p_kind, j_status, j_error, is_running, pc, cur, cur_status,
                cur_mode, exc, consecutive_errors, raised, write_raised>>

VARIABLES
    \* ---- mode router (end of _analyze_job)
    r_mode, r_duplicate_count, r_conflict_count, r_next

routerVars == <<r_mode, r_duplicate_count, r_conflict_count, r_next>>

VARIABLES
    \* ---- one date cell going through _apply_mapping and _parse_date
    d_value,        \* the stripped cell of the column mapped to date_of_birth
    d_k,            \* the index in patterns of the pattern tried next
    d_parsed,       \* what _parse_date returned
    d_mapped,       \* the mapped dict of _apply_mapping
    d_pc            \* "patterns" | "returned" | "mapped"

dateVars == <<d_value, d_k, d_parsed, d_mapped, d_pc>>

VARIABLES
    \* ---- one import job: analysis and execution
    contacts,           \* the user's rows of the contacts table, newest first
    existing_contacts,  \* the snapshot analyze_rows loaded
    a_phase,            \* "load" | "rows" | "saved" | "done"
    a_row_number,       \* number of CSV rows analysed so far
    a_saved,            \* number of ImportRows emitted so far
    a_row,              \* the ImportRow emitted for the last CSV row, if any
    x_phase,            \* position of execute_import
    x_n,                \* number of rows get_import_rows_for_processing returned
    x_row,              \* the fetched row of the current loop iteration
    x_pending,          \* the outcome about to be recorded, or str(e)
    x_stats,            \* execute_import's stats dict
    x_inserted,         \* number of rows inserted into contacts by this run
    x_last,             \* this iteration's update_contact call and the row it found
    x_results           \* per fetched row: the outcome recorded on it

analysisVars == <<existing_contacts, a_phase, a_row_number, a_saved, a_row>>
execVars == <<x_phase, x_n, x_row, x_pending, x_stats, x_inserted, x_last,
              x_results>>
importVars == <<contacts, analysisVars, execVars>>

VARIABLES
    \* ---- one import job from the uploaded CSV to the final stats
    s_headers,      \* the CSV's header line
    s_rows,         \* the CSV's rows, each a tuple of values under the headers
    s_api_key,      \* whether a Deepseek API key is configured
    s_mode,         \* the job's mode
    s_status,       \* the job's status
    s_stats,        \* the stats written with the job's status
    s_writes,       \* number of status writes the analysis run has made
    s_mapping,      \* column_mapping: header position -> contact field
    s_analyzed,     \* analyzed_rows: the ImportRows analyze_rows returned
    s_saved,        \* the ImportRows save_import_rows stored
    s_ai,           \* what became of the column classifier's call
    s_error,        \* the job's error_message
    s_resume        \* <<>>, or the contacts as the second execution found them

scenarioVars == <<s_headers, s_rows, s_api_key, s_mode, s_status, s_stats,
                  s_writes, s_mapping, s_analyzed, s_saved, s_ai, s_error,
                  s_resume>>

vars == <<leaseVars, pollerVars, routerVars, dateVars, importVars, scenarioVars>>

notLease == <<pollerVars, routerVars, dateVars, importVars, scenarioVars>>
notPoller == <<leaseVars, routerVars, dateVars, importVars, scenarioVars>>
notRouter == <<leaseVars, pollerVars, dateVars, importVars, scenarioVars>>
notImport == <<leaseVars, pollerVars, routerVars, dateVars, scenarioVars>>

NULL == "NULL"

(***************************************************************************)
(* Bounds                                                                  *)
(***************************************************************************)
NumJobs == 3
NumClaimants == 2

QJobs == 1..NumJobs
Claimants == 1..NumClaimants
Docs == {"d1", "d2"}
ErrTexts == {"e1", "e2"}
LeaseErrTexts == {"e1"}

SetMin(S) == CHOOSE x \in S : \A y \in S : x <= y

(***************************************************************************)
(* Idle values: what a specification holds the other subsystems at         *)
(***************************************************************************)
LeaseIdle ==
    /\ q_status = <<>> /\ q_error = <<>> /\ q_retry = <<>> /\ q_lock = <<>>
    /\ q_doc = <<>> /\ tx = <<>> /\ last_claim = <<>> /\ returned = <<>>

PollerIdle ==
    /\ p_kind = NULL /\ j_status = <<>> /\ j_error = <<>> /\ is_running = FALSE
    /\ pc = "not_started" /\ cur = 0 /\ cur_status = NULL /\ cur_mode = NULL
    /\ exc = NULL /\ consecutive_errors = 0 /\ raised = <<>>
    /\ write_raised = FALSE

RouterIdle ==
    /\ r_mode = NULL /\ r_duplicate_count = 0 /\ r_conflict_count = 0
    /\ r_next = NULL

ImportIdle ==
    /\ contacts = <<>> /\ existing_contacts = <<>> /\ a_phase = NULL
    /\ a_row_number = 0 /\ a_saved = 0 /\ a_row = <<>>
    /\ x_phase = NULL /\ x_n = 0 /\ x_row = <<>> /\ x_pending = NULL
    /\ x_stats = NULL /\ x_inserted = 0 /\ x_last = <<>> /\ x_results = <<>>

DateIdle ==
    /\ d_value = <<>> /\ d_k = 0 /\ d_parsed = NULL /\ d_mapped = <<>>
    /\ d_pc = NULL

ScenarioIdle ==
    /\ s_headers = <<>> /\ s_rows = <<>> /\ s_api_key = FALSE
    /\ s_mode = NULL /\ s_status = NULL /\ s_stats = NULL /\ s_writes = 0
    /\ s_mapping = <<>> /\ s_analyzed = <<>> /\ s_saved = <<>>
    /\ s_ai = NULL /\ s_error = NULL /\ s_resume = <<>>

(***************************************************************************)
(* AI labeling queue: the claim                                            *)
(***************************************************************************)

\* FOR UPDATE (no OF clause) locks the queue row and the joined documents
\* row; a row is skipped when either is locked by another transaction.
LockedByOther(j, c) ==
    \E k \in QJobs : q_doc[k] = q_doc[j] /\ q_lock[k] # 0 /\ q_lock[k] # c

\* The claim's candidate rows with the row locks ignored.
ClaimCandidates_NoLock(c) ==
    {j \in QJobs : q_status[j] = "pending"}

\* WHERE q.status = 'pending' ... FOR UPDATE SKIP LOCKED
ClaimCandidates(c) ==
    {j \in QJobs : q_status[j] = "pending" /\ ~LockedByOther(j, c)}

\* ORDER BY created_at DESC: the newest candidate.
OldestCandidate_Newest(c) ==
    CHOOSE x \in ClaimCandidates(c) : \A y \in ClaimCandidates(c) : y <= x

\* ORDER BY q.created_at ASC LIMIT 1: jobs are numbered in creation order.
OldestCandidate(c) == SetMin(ClaimCandidates(c))

LeaseInit ==
    /\ q_status = [j \in QJobs |-> "pending"]
    /\ q_error = [j \in QJobs |-> NULL]
    /\ q_retry = [j \in QJobs |-> 0]
    /\ q_lock = [j \in QJobs |-> 0]
    /\ q_doc \in [QJobs -> Docs]
    /\ tx = [c \in Claimants |-> [pc |-> "idle", row |-> 0]]
    /\ last_claim = [c \in Claimants |-> "none"]
    /\ returned = [j \in QJobs |-> 0]
    /\ PollerIdle /\ RouterIdle /\ ImportIdle /\ ScenarioIdle /\ DateIdle

\* fetchrow finds no unlocked pending row: the claim returns None.
SelectNone(c) ==
    /\ tx[c].pc = "idle"
    /\ ClaimCandidates(c) = {}
    /\ last_claim' = [last_claim EXCEPT ![c] = "none"]
    /\ UNCHANGED <<q_status, q_error, q_retry, q_lock, q_doc, tx, returned, notLease>>

\* fetchrow returns the oldest unlocked pending row and locks it.
SelectRow(c) ==
    /\ tx[c].pc = "idle"
    /\ ClaimCandidates(c) # {}
    /\ LET j == OldestCandidate(c) IN
        /\ q_lock' = [q_lock EXCEPT ![j] = c]
        /\ tx' = [tx EXCEPT ![c] = [pc |-> "locked", row |-> j]]
    /\ UNCHANGED <<q_status, q_error, q_retry, q_doc, last_claim, returned, notLease>>

\* fetchrow raises (store error): the except branch returns None.
SelectFail(c) ==
    /\ tx[c].pc = "idle"
    /\ last_claim' = [last_claim EXCEPT ![c] = "error"]
    /\ UNCHANGED <<q_status, q_error, q_retry, q_lock, q_doc, tx, returned, notLease>>

\* UPDATE ... SET status = 'processing' WHERE id = $1, not yet committed.
MarkProcessing(c) ==
    /\ tx[c].pc = "locked"
    /\ tx' = [tx EXCEPT ![c].pc = "updated"]
    /\ UNCHANGED <<q_status, q_error, q_retry, q_lock, q_doc, last_claim, returned, notLease>>

\* The claim without its transaction: the UPDATE stays when a later
\* statement raises.
ClaimRollback_KeepsUpdate(c) ==
    /\ tx[c].pc \in {"locked", "updated"}
    /\ q_status' = IF tx[c].pc = "updated"
                       THEN [q_status EXCEPT ![tx[c].row] = "processing"]
                       ELSE q_status
    /\ q_lock' = [j \in QJobs |-> IF q_lock[j] = c THEN 0 ELSE q_lock[j]]
    /\ tx' = [tx EXCEPT ![c] = [pc |-> "idle", row |-> 0]]
    /\ last_claim' = [last_claim EXCEPT ![c] = "error"]
    /\ UNCHANGED <<q_error, q_retry, q_doc, returned, notLease>>

\* The UPDATE or the commit raises: the transaction rolls back, the lock is
\* released, the row keeps its committed status and the claim returns None.
ClaimRollback(c) ==
    /\ tx[c].pc \in {"locked", "updated"}
    /\ q_lock' = [j \in QJobs |-> IF q_lock[j] = c THEN 0 ELSE q_lock[j]]
    /\ tx' = [tx EXCEPT ![c] = [pc |-> "idle", row |-> 0]]
    /\ last_claim' = [last_claim EXCEPT ![c] = "error"]
    /\ UNCHANGED <<q_status, q_error, q_retry, q_doc, returned, notLease>>

\* The UPDATE without its WHERE id = $1: every pending row is written.
ClaimCommit_AllPending(c) ==
    /\ tx[c].pc = "updated"
    /\ LET j == tx[c].row IN
        /\ q_status' = [k \in QJobs |-> IF q_status[k] = "pending"
                                            THEN "processing"
                                            ELSE q_status[k]]
        /\ q_lock' = [k \in QJobs |-> IF q_lock[k] = c THEN 0 ELSE q_lock[k]]
        /\ returned' = [returned EXCEPT ![j] = @ + 1]
    /\ tx' = [tx EXCEPT ![c].pc = "holding"]
    /\ last_claim' = [last_claim EXCEPT ![c] = "job"]
    /\ UNCHANGED <<q_error, q_retry, q_doc, notLease>>

\* The transaction commits and the claim returns dict(row) to its caller.
ClaimCommit(c) ==
    /\ tx[c].pc = "updated"
    /\ LET j == tx[c].row IN
        /\ q_status' = [q_status EXCEPT ![j] = "processing"]
        /\ q_lock' = [k \in QJobs |-> IF q_lock[k] = c THEN 0 ELSE q_lock[k]]
        /\ returned' = [returned EXCEPT ![j] = @ + 1]
    /\ tx' = [tx EXCEPT ![c].pc = "holding"]
    /\ last_claim' = [last_claim EXCEPT ![c] = "job"]
    /\ UNCHANGED <<q_error, q_retry, q_doc, notLease>>

\* The labeling handler ends: update_ai_labeling_job_status(completed).
HandlerCompleted(c) ==
    /\ tx[c].pc = "holding"
    /\ q_status' = [q_status EXCEPT ![tx[c].row] = "completed"]
    /\ q_error' = [q_error EXCEPT ![tx[c].row] = NULL]
    /\ tx' = [tx EXCEPT ![c] = [pc |-> "idle", row |-> 0]]
    /\ UNCHANGED <<q_retry, q_lock, q_doc, last_claim, returned, notLease>>

\* A failure that puts the job back in the queue.
HandlerFailed_Requeues(c, e) ==
    /\ tx[c].pc = "holding"
    /\ q_status' = [q_status EXCEPT ![tx[c].row] = "pending"]
    /\ q_error' = [q_error EXCEPT ![tx[c].row] = e]
    /\ q_retry' = [q_retry EXCEPT ![tx[c].row] = @ + 1]
    /\ tx' = [tx EXCEPT ![c] = [pc |-> "idle", row |-> 0]]
    /\ UNCHANGED <<q_lock, q_doc, last_claim, returned, notLease>>

\* The labeling handler raised e: update_ai_labeling_job_status(failed, e).
HandlerFailed(c, e) ==
    /\ tx[c].pc = "holding"
    /\ q_status' = [q_status EXCEPT ![tx[c].row] = "failed"]
    /\ q_error' = [q_error EXCEPT ![tx[c].row] = e]
    /\ q_retry' = [q_retry EXCEPT ![tx[c].row] = @ + 1]
    /\ tx' = [tx EXCEPT ![c] = [pc |-> "idle", row |-> 0]]
    /\ UNCHANGED <<q_lock, q_doc, last_claim, returned, notLease>>

\* The failed-status write itself raises: logged, the row stays processing.
HandlerStatusWriteLost(c) ==
    /\ tx[c].pc = "holding"
    /\ tx' = [tx EXCEPT ![c] = [pc |-> "idle", row |-> 0]]
    /\ UNCHANGED <<q_status, q_error, q_retry, q_lock, q_doc, last_claim, returned, notLease>>

LeaseNext ==
    \E c \in Claimants :
        \/ SelectNone(c)
        \/ SelectRow(c)
        \/ SelectFail(c)
        \/ MarkProcessing(c)
        \/ ClaimRollback(c)
        \/ ClaimCommit(c)
        \/ HandlerCompleted(c)
        \/ \E e \in LeaseErrTexts : HandlerFailed(c, e)
        \/ HandlerStatusWriteLost(c)

\* The queue served by one claimant only.
SingleClaimantNext ==
    \/ SelectNone(1)
    \/ SelectRow(1)
    \/ SelectFail(1)
    \/ MarkProcessing(1)
    \/ ClaimRollback(1)
    \/ ClaimCommit(1)
    \/ HandlerCompleted(1)
    \/ \E e \in LeaseErrTexts : HandlerFailed(1, e)
    \/ HandlerStatusWriteLost(1)

SpecSingleClaimant == LeaseInit /\ [][SingleClaimantNext]_vars

SpecLease == LeaseInit /\ [][LeaseNext]_vars

\* The pollers of the queue run for ever: _poll_loop claims again after
\* every sleep and every handler ends in one of its status writes, so a
\* step of the queue's protocol that stays possible is eventually taken.
SpecLeaseLive == LeaseInit /\ [][LeaseNext]_vars /\ WF_vars(LeaseNext)

(***************************************************************************)
(* C1: at-most-once claim.  No job is returned by more than one claim call *)
(* (so the claimed jobs have no duplicates and number at most NumJobs),    *)
(* and no two claimants hold the same job in processing at the same time.  *)
(***************************************************************************)
C1_AtMostOnceClaim ==
    /\ \A j \in QJobs : returned[j] <= 1
    /\ \A c1, c2 \in Claimants :
        (c1 # c2 /\ tx[c1].pc = "holding" /\ tx[c2].pc = "holding")
            => tx[c1].row # tx[c2].row

\* Two claimants raced: one holds a job while the other holds another one
\* that it obtained by skipping the first claimant's locked row.
C1_Witness ==
    \E c1, c2 \in Claimants :
        /\ c1 # c2
        /\ tx[c1].pc = "holding" /\ tx[c2].pc = "holding"
        /\ returned[tx[c1].row] = 1 /\ returned[tx[c2].row] = 1

(***************************************************************************)
(* Properties of the claim's steps                                         *)
(***************************************************************************)

\* The step is taken by c alone and ends a claim call of c without a job
\* after a store error.
ClaimFails(c) ==
    /\ \A d \in Claimants \ {c} :
          tx'[d] = tx[d] /\ last_claim'[d] = last_claim[d]
    /\ tx[c].pc \in {"idle", "locked", "updated"}
    /\ last_claim'[c] = "error"
    /\ tx'[c] = [pc |-> "idle", row |-> 0]

\* The jobs in processing that no claimant holds.
Orphans == {j \in QJobs : /\ q_status[j] = "processing"
                          /\ \A c \in Claimants :
                                ~(tx[c].pc = "holding" /\ tx[c].row = j)}

\* C12: when the candidate select or the status update of a claim fails
\* with a store error, the claim returns no job, the job it had selected is
\* still pending and unlocked by it, and the step adds no job that is in
\* processing without a claimant holding it.
C12_FailedClaimLeavesPending ==
    [][\A c \in Claimants :
          ClaimFails(c) =>
             /\ returned' = returned
             /\ q_status' = q_status
             /\ tx[c].row # 0 => q_status'[tx[c].row] = "pending"
             /\ \A j \in QJobs : q_lock'[j] # c
             /\ Orphans' = Orphans]_vars

\* A claim of c ended with a store error and every job is pending, unlocked
\* and was never returned.
C12_Witness ==
    \E c \in Claimants :
        /\ last_claim[c] = "error"
        /\ tx[c] = [pc |-> "idle", row |-> 0]
        /\ \A j \in QJobs : /\ q_status[j] = "pending"
                            /\ q_lock[j] = 0
                            /\ returned[j] = 0

\* C13: with a single claimant (so no candidate is locked by another
\* transaction) every successful claim returns the pending job created
\* first; the jobs are claimed in creation order.
C13_OldestFirst ==
    [][\A j \in QJobs :
          returned'[j] # returned[j] =>
             /\ q_status[j] = "pending"
             /\ \A k \in QJobs : q_status[k] = "pending" => j <= k]_vars

\* The single claimant claimed the first two jobs, one after the other.
C13_Witness ==
    /\ \A c \in Claimants : c # 1 => last_claim[c] = "none"
    /\ returned[1] = 1 /\ returned[2] = 1
    /\ q_status[1] # "pending" /\ q_status[2] = "processing"
    /\ \A j \in QJobs : j > 2 => q_status[j] = "pending"

\* The step is taken by c alone and ends a claim call of c without a job.
ClaimReturnsNone(c) ==
    /\ \A d \in Claimants \ {c} :
          tx'[d] = tx[d] /\ last_claim'[d] = last_claim[d]
    /\ tx[c].pc \in {"idle", "locked", "updated"}
    /\ tx'[c].pc = "idle"
    /\ last_claim'[c] \in {"none", "error"}

\* C14: a successful claim writes one status: the returned job goes from
\* pending to processing and no other job changes; a claim that returns
\* no job changes no job's status.
C14_OneStatusWrite ==
    [][/\ \A j \in QJobs :
             returned'[j] # returned[j] =>
                /\ q_status[j] = "pending"
                /\ q_status'[j] = "processing"
                /\ \A k \in QJobs : k # j => q_status'[k] = q_status[k]
       /\ \A c \in Claimants :
             ClaimReturnsNone(c) => q_status' = q_status]_vars

\* A claim returned a job while another pending job stayed pending, and
\* another claim returned none.
C14_Witness ==
    \E c, d \in Claimants :
        /\ c # d
        /\ last_claim[c] = "job" /\ tx[c].pc = "holding"
        /\ q_status[tx[c].row] = "processing"
        /\ last_claim[d] = "error"
        /\ \E k \in QJobs : q_status[k] = "pending"

(***************************************************************************)
(* Mode router: the status written at the end of a successful analysis     *)
(***************************************************************************)
Modes == {"turbo", "safe", "balanced"}

MaxCount == 4
Counts == 0..MaxCount

\* Balanced mode looking at the conflict count alone.
ModeRouter_ConflictsOnly(mode, duplicate_count, conflict_count) ==
    CASE mode = "turbo" -> "processing"
      [] mode = "safe" -> "pending_review"
      [] mode = "balanced" ->
            IF conflict_count > 0 THEN "pending_review" ELSE "processing"
      [] OTHER -> NULL

\* Balanced mode always auto-executing.
ModeRouter_BalancedAuto(mode, duplicate_count, conflict_count) ==
    CASE mode = "turbo" -> "processing"
      [] mode = "safe" -> "pending_review"
      [] mode = "balanced" -> "processing"
      [] OTHER -> NULL

\* if mode == "turbo" ... elif mode == "safe" ... elif mode == "balanced" ...
\* NULL: no branch taken, no status written.
ModeRouter(mode, duplicate_count, conflict_count) ==
    CASE mode = "turbo" -> "processing"
      [] mode = "safe" -> "pending_review"
      [] mode = "balanced" ->
            IF duplicate_count > 0 \/ conflict_count > 0
            THEN "pending_review" ELSE "processing"
      [] OTHER -> NULL

RouterInit ==
    /\ r_mode \in Modes
    /\ r_duplicate_count \in Counts
    /\ r_conflict_count \in Counts
    /\ r_next = NULL
    /\ LeaseIdle /\ PollerIdle /\ ImportIdle /\ ScenarioIdle /\ DateIdle

\* Step 6 of _analyze_job on the stats of the analysed rows.
RouteAnalysis ==
    /\ r_next = NULL
    /\ r_next' = ModeRouter(r_mode, r_duplicate_count, r_conflict_count)
    /\ UNCHANGED <<r_mode, r_duplicate_count, r_conflict_count, notRouter>>

RouterNext == RouteAnalysis

SpecRouter == RouterInit /\ [][RouterNext]_vars

(***************************************************************************)
(* C4: the routed status follows the policy table for all counts: turbo    *)
(* always processing, safe always pending_review, balanced processing      *)
(* exactly when there are no duplicates and no conflicts.                  *)
(***************************************************************************)
C4_PolicyTable ==
    r_next # NULL =>
        /\ r_next \in {"processing", "pending_review"}
        /\ r_mode = "turbo" => r_next = "processing"
        /\ r_mode = "safe" => r_next = "pending_review"
        /\ r_mode = "balanced" =>
            (r_next = "processing"
                <=> (r_duplicate_count = 0 /\ r_conflict_count = 0))

\* A balanced analysis with duplicates only was routed to review.
C4_Witness ==
    /\ r_mode = "balanced" /\ r_duplicate_count > 0 /\ r_conflict_count = 0
    /\ r_next = "pending_review"

(***************************************************************************)
(* C5 as stated: balanced with duplicates=2, conflicts=0 is routed to      *)
(* processing, and with duplicates=0, conflicts=1 to pending_review.       *)
(***************************************************************************)
C5_Original ==
    (r_next # NULL /\ r_mode = "balanced") =>
        /\ (r_duplicate_count = 2 /\ r_conflict_count = 0)
                => r_next = "processing"
        /\ (r_duplicate_count = 0 /\ r_conflict_count = 1)
                => r_next = "pending_review"

(***************************************************************************)
(* C5 amended: balanced with duplicates=2, conflicts=0 is routed to        *)
(* pending_review, and so is balanced with duplicates=0, conflicts=1.      *)
(***************************************************************************)
C5_BalancedExamples ==
    (r_next # NULL /\ r_mode = "balanced") =>
        /\ (r_duplicate_count = 2 /\ r_conflict_count = 0)
                => r_next = "pending_review"
        /\ (r_duplicate_count = 0 /\ r_conflict_count = 1)
                => r_next = "pending_review"

\* The balanced analysis with two duplicates and no conflict was routed.
C5_Witness ==
    /\ r_mode = "balanced" /\ r_duplicate_count = 2 /\ r_conflict_count = 0
    /\ r_next # NULL


(***************************************************************************)
(* One poller: _poll_loop, _process_job and stop()                         *)
(*                                                                         *)
(* pc is the await the poll task is suspended at:                          *)
(*   claim        await Database.get_next_*_job(...)                       *)
(*   handler      inside _process_job's try block, before its last write   *)
(*   mark_failed  inside _process_job's except block, writing "failed"     *)
(*   sleep_poll   await asyncio.sleep(poll_interval_seconds)               *)
(*   sleep_10, sleep_60   the backoff sleeps of the loop's except branch   *)
(***************************************************************************)
NumPollJobs == 2
PJobs == 1..NumPollJobs
PollerKinds == {"import", "labeling", "ocr"}

max_consecutive_errors == 5

\* The status a producer creates a job with.
InitialStatus(kind) == IF kind = "ocr" THEN "queued" ELSE "pending"

\* The statuses the claim of each queue picks up.  The import and OCR claims
\* are stored functions (get_next_import_job, get_next_ocr_job).
ClaimableStatuses(kind) ==
    CASE kind = "import" -> {"pending", "processing"}
      [] kind = "labeling" -> {"pending"}
      [] kind = "ocr" -> {"queued"}

\* The status the claim leaves the job in and returns in job_data.
ClaimedStatus(kind, st) ==
    IF kind = "import" /\ st = "pending" THEN "analyzing" ELSE "processing"

PClaimable == {j \in PJobs : j_status[j] \in ClaimableStatuses(p_kind)}

\* The failed write losing the exception text.
FailedRow_NoText(e) == [status |-> "failed", error |-> NULL]

\* update_*_job_status(id, "failed", error_message=str(e))
FailedRow(e) == [status |-> "failed", error |-> e]

PollerInit ==
    /\ p_kind \in PollerKinds
    /\ j_status = [j \in PJobs |-> InitialStatus(p_kind)]
    /\ j_error = [j \in PJobs |-> NULL]
    /\ is_running = FALSE
    /\ pc = "not_started"
    /\ cur = 0 /\ cur_status = NULL /\ cur_mode = NULL /\ exc = NULL
    /\ consecutive_errors = 0
    /\ raised = [j \in PJobs |-> NULL]
    /\ write_raised = FALSE
    /\ LeaseIdle /\ RouterIdle /\ ImportIdle /\ ScenarioIdle /\ DateIdle

\* start(): is_running = True, the poll task is created and reaches its
\* first claim.
Start ==
    /\ pc = "not_started" /\ ~is_running
    /\ is_running' = TRUE
    /\ pc' = "claim"
    /\ UNCHANGED <<p_kind, j_status, j_error, cur, cur_status, cur_mode, exc,
                   consecutive_errors, raised, write_raised, notPoller>>

\* The claim returns the oldest claimable job: the error counter is reset
\* and _process_job is entered.
PollClaimJob(mode) ==
    /\ pc = "claim"
    /\ PClaimable # {}
    /\ (p_kind = "import") <=> (mode # NULL)
    /\ LET j == SetMin(PClaimable)
           st == ClaimedStatus(p_kind, j_status[j]) IN
        /\ j_status' = [j_status EXCEPT ![j] = st]
        /\ cur' = j
        /\ cur_status' = st
        /\ raised' = [raised EXCEPT ![j] = NULL]
    /\ cur_mode' = mode
    /\ consecutive_errors' = 0
    /\ pc' = "handler"
    /\ UNCHANGED <<p_kind, j_error, is_running, exc, write_raised, notPoller>>

\* The claim finds nothing: sleep the poll interval.
PollClaimNone ==
    /\ pc = "claim"
    /\ PClaimable = {}
    /\ pc' = "sleep_poll"
    /\ UNCHANGED <<p_kind, j_status, j_error, is_running, cur, cur_status,
                   cur_mode, exc, consecutive_errors, raised, write_raised,
                   notPoller>>

\* The claim hits a store error: get_next_*_job catches it and returns None,
\* so the loop takes the same branch as for an empty queue.
PollClaimStoreError ==
    /\ pc = "claim"
    /\ pc' = "sleep_poll"
    /\ UNCHANGED <<p_kind, j_status, j_error, is_running, cur, cur_status,
                   cur_mode, exc, consecutive_errors, raised, write_raised,
                   notPoller>>

WakePoll ==
    /\ pc = "sleep_poll"
    /\ pc' = "claim"
    /\ UNCHANGED <<p_kind, j_status, j_error, is_running, cur, cur_status,
                   cur_mode, exc, consecutive_errors, raised, write_raised,
                   notPoller>>

\* A chain whose else branch runs the execution phase.
Dispatch_ExecutesOthers(status) ==
    IF status = "analyzing" THEN "analyze" ELSE "execute"

\* if status == "analyzing" / elif status == "processing" / else of
\* ContactImportPoller._process_job: the phase the handler runs.
Dispatch(status) ==
    IF status = "analyzing" THEN "analyze"
    ELSE IF status = "processing" THEN "execute"
    ELSE "none"

\* Something inside _process_job's try block raises e (the download, the
\* parse, an unmapped required column, the worker, a status write).
HandlerRaises(e) ==
    /\ pc = "handler"
    /\ p_kind = "import" => Dispatch(cur_status) # "none"
    /\ exc' = e
    /\ raised' = [raised EXCEPT ![cur] = e]
    /\ write_raised' = FALSE
    /\ pc' = "mark_failed"
    /\ UNCHANGED <<p_kind, j_status, j_error, is_running, cur, cur_status,
                   cur_mode, consecutive_errors, notPoller>>

HandlerDone ==
    /\ cur' = 0 /\ cur_status' = NULL /\ cur_mode' = NULL /\ exc' = NULL

\* _analyze_job ends: the routed status is written with the stats.
AnalyzeReturns(duplicate_count, conflict_count) ==
    /\ pc = "handler" /\ p_kind = "import"
    /\ Dispatch(cur_status) = "analyze"
    /\ LET next == ModeRouter(cur_mode, duplicate_count, conflict_count) IN
        j_status' = [j_status EXCEPT ![cur] = IF next = NULL THEN @ ELSE next]
    /\ HandlerDone
    /\ pc' = "claim"
    /\ UNCHANGED <<p_kind, j_error, is_running, consecutive_errors, raised,
                   write_raised, notPoller>>

\* _execute_job ends: completed is written with the final stats.
ExecuteReturns ==
    /\ pc = "handler" /\ p_kind = "import"
    /\ Dispatch(cur_status) = "execute"
    /\ j_status' = [j_status EXCEPT ![cur] = "completed"]
    /\ HandlerDone
    /\ pc' = "claim"
    /\ UNCHANGED <<p_kind, j_error, is_running, consecutive_errors, raised,
                   write_raised, notPoller>>

\* The labeling handler ends: completed is written.  (The OCR handler has no
\* such step: its call of Database.save_ocr_result passes embeddings=, which
\* the method does not accept, so every OCR run raises.)
LabelingReturns ==
    /\ pc = "handler" /\ p_kind = "labeling"
    /\ j_status' = [j_status EXCEPT ![cur] = "completed"]
    /\ j_error' = [j_error EXCEPT ![cur] = NULL]
    /\ HandlerDone
    /\ pc' = "claim"
    /\ UNCHANGED <<p_kind, is_running, consecutive_errors, raised,
                   write_raised, notPoller>>

\* The except branch writes failed with str(e).
MarkFailed ==
    /\ pc = "mark_failed"
    /\ j_status' = [j_status EXCEPT ![cur] = FailedRow(exc).status]
    /\ j_error' = [j_error EXCEPT ![cur] = FailedRow(exc).error]
    /\ HandlerDone
    /\ pc' = "claim"
    /\ UNCHANGED <<p_kind, is_running, consecutive_errors, raised,
                   write_raised, notPoller>>

\* The loop's except branch without the count.
LoopExcept_NoCount(n) == [counter |-> n, pc |-> "sleep_10"]

\* except Exception in _poll_loop, entered with the counter at n: the
\* counter is incremented; at max_consecutive_errors the loop sleeps 60 s
\* (and resets the counter on waking), below it 10 s.
LoopExcept(n) ==
    [counter |-> n + 1,
     pc |-> IF n + 1 >= max_consecutive_errors THEN "sleep_60" ELSE "sleep_10"]

\* AILabelingJob(**job_data) / OCRJob(**job_data) is evaluated in the loop,
\* before _process_job is entered: a claimed row with a NULL for a required
\* str field (ocr_text, file_url, file_type) fails validation, the loop's
\* except branch runs and the job keeps the status the claim gave it.
JobModelRaises ==
    /\ pc = "handler" /\ p_kind \in {"labeling", "ocr"}
    /\ HandlerDone
    /\ consecutive_errors' = LoopExcept(consecutive_errors).counter
    /\ pc' = LoopExcept(consecutive_errors).pc
    /\ UNCHANGED <<p_kind, j_status, j_error, is_running, raised,
                   write_raised, notPoller>>

\* The failed write itself raises.  The labeling and OCR handlers log it and
\* return; the import handler lets it reach the poll loop, whose except
\* branch counts it and backs off.
MarkFailedRaises ==
    /\ pc = "mark_failed"
    /\ write_raised' = TRUE
    /\ HandlerDone
    /\ IF p_kind = "import"
       THEN /\ consecutive_errors' = LoopExcept(consecutive_errors).counter
            /\ pc' = LoopExcept(consecutive_errors).pc
       ELSE /\ consecutive_errors' = consecutive_errors
            /\ pc' = "claim"
    /\ UNCHANGED <<p_kind, j_status, j_error, is_running, raised, notPoller>>

\* A backoff sleep ends; after the long one the counter is reset.
WakeBackoff ==
    /\ pc \in {"sleep_10", "sleep_60"}
    /\ consecutive_errors' = IF pc = "sleep_60" THEN 0 ELSE consecutive_errors
    /\ pc' = "claim"
    /\ UNCHANGED <<p_kind, j_status, j_error, is_running, cur, cur_status,
                   cur_mode, exc, raised, write_raised, notPoller>>

\* A stop() that only clears the flag.
Stop_FlagOnly ==
    /\ is_running
    /\ is_running' = FALSE
    /\ UNCHANGED <<p_kind, j_status, j_error, pc, cur, cur_status, cur_mode,
                   exc, consecutive_errors, raised, write_raised, notPoller>>

\* stop(): is_running = False and task.cancel().  CancelledError is raised at
\* the await the task is suspended at.  It is a BaseException: neither the
\* handlers' nor the claim's "except Exception" catches it, so from any await
\* it reaches the loop (except asyncio.CancelledError: break) or leaves the
\* task, and the loop is over.  cur keeps the job whose handler was cut.
Stop ==
    /\ is_running
    /\ is_running' = FALSE
    /\ pc' = "exited"
    /\ UNCHANGED <<p_kind, j_status, j_error, cur, cur_status, cur_mode, exc,
                   consecutive_errors, raised, write_raised, notPoller>>

PollerNext ==
    \/ Start
    \/ \E mode \in Modes \cup {NULL} : PollClaimJob(mode)
    \/ PollClaimNone
    \/ PollClaimStoreError
    \/ WakePoll
    \/ \E e \in ErrTexts : HandlerRaises(e)
    \/ \E d, c \in Counts : AnalyzeReturns(d, c)
    \/ ExecuteReturns
    \/ LabelingReturns
    \/ JobModelRaises
    \/ MarkFailed
    \/ MarkFailedRaises
    \/ WakeBackoff
    \/ Stop

SpecPoller == PollerInit /\ [][PollerNext]_vars

\* The import claim hands out a job in a status other than analyzing and
\* processing, left as it is.
PollClaimUnexpected(mode) ==
    /\ pc = "claim"
    /\ p_kind = "import"
    /\ \E j \in PJobs :
          /\ j_status[j] \notin {"analyzing", "processing"}
          /\ cur' = j
          /\ cur_status' = j_status[j]
          /\ raised' = [raised EXCEPT ![j] = NULL]
    /\ cur_mode' = mode
    /\ consecutive_errors' = 0
    /\ pc' = "handler"
    /\ UNCHANGED <<p_kind, j_status, j_error, is_running, exc, write_raised,
                   notPoller>>

\* else: logger.warning("Unexpected job status"), and _process_job returns.
HandlerUnexpected ==
    /\ pc = "handler" /\ p_kind = "import"
    /\ Dispatch(cur_status) = "none"
    /\ HandlerDone
    /\ pc' = "claim"
    /\ UNCHANGED <<p_kind, j_status, j_error, is_running, consecutive_errors,
                   raised, write_raised, notPoller>>

DispatchNext ==
    \/ PollerNext
    \/ \E mode \in Modes : PollClaimUnexpected(mode)
    \/ HandlerUnexpected

SpecDispatch == PollerInit /\ [][DispatchNext]_vars

C3_HandlerRunsToCompletion ==
    pc = "exited" => cur = 0

\* The step leaves the loop's try block by an exception other than the
\* cancellation: the loop is in a backoff sleep after it.
ExceptionReachesLoop ==
    pc \in {"claim", "handler", "mark_failed"} /\ pc' \in {"sleep_10", "sleep_60"}

C16_ClaimErrorCounts ==
    [][(pc = "claim" /\ PClaimable # {} /\ cur' = 0 /\ pc' # "exited") =>
          /\ consecutive_errors' = consecutive_errors + 1
          /\ pc' \in {"sleep_10", "sleep_60"}]_vars

\* C17 as stated: no exception raised while a claimed job is handled leaves
\* _process_job for the poll loop: the handler's failure path always ends
\* with the loop at its next claim, never in the loop's except branch, for
\* the import, labeling and OCR pollers alike.
C17_HandlerNeverRaises ==
    [][pc = "mark_failed" =>
          (pc' \in {"mark_failed", "claim", "exited"}
           /\ consecutive_errors' = consecutive_errors)]_vars


(***************************************************************************)
(* Strings of the import: a string is a sequence of one-character strings, *)
(* so that lower(), strip() and the phone normalisation do what the code   *)
(* does.  NONE is Python's None.                                           *)
(***************************************************************************)
NONE == <<"<None>">>

\* A value Python treats as true: neither None nor the empty string.
Truthy(v) == v # NONE /\ v # <<>>

\* str(v)
PyStr(v) == IF v = NONE THEN <<"N", "o", "n", "e">> ELSE v

LowerChar(ch) ==
    CASE ch = "A" -> "a"
      [] ch = "B" -> "b"
      [] ch = "C" -> "c"
      [] ch = "D" -> "d"
      [] ch = "E" -> "e"
      [] ch = "F" -> "f"
      [] ch = "G" -> "g"
      [] ch = "H" -> "h"
      [] ch = "I" -> "i"
      [] ch = "J" -> "j"
      [] ch = "K" -> "k"
      [] ch = "L" -> "l"
      [] ch = "M" -> "m"
      [] ch = "N" -> "n"
      [] ch = "O" -> "o"
      [] ch = "P" -> "p"
      [] ch = "Q" -> "q"
      [] ch = "R" -> "r"
      [] ch = "S" -> "s"
      [] ch = "T" -> "t"
      [] ch = "U" -> "u"
      [] ch = "V" -> "v"
      [] ch = "W" -> "w"
      [] ch = "X" -> "x"
      [] ch = "Y" -> "y"
      [] ch = "Z" -> "z"
      [] OTHER -> ch

\* str.lower()
Lower(s) == [i \in 1..Len(s) |-> LowerChar(s[i])]

RECURSIVE LStrip(_)
LStrip(s) == IF s # <<>> /\ Head(s) = " " THEN LStrip(Tail(s)) ELSE s

RECURSIVE RStrip(_)
RStrip(s) ==
    IF s # <<>> /\ s[Len(s)] = " " THEN RStrip(SubSeq(s, 1, Len(s) - 1)) ELSE s

\* str.strip()
Strip(s) == RStrip(LStrip(s))

IsPhoneChar(ch) ==
    ch \in {"0", "1", "2", "3", "4", "5", "6", "7", "8", "9", "+"}

\* re.sub(r'[^\d+]', '', phone), "" for a missing phone
NormalizePhone(phone) ==
    IF ~Truthy(phone) THEN <<>> ELSE SelectSeq(phone, IsPhoneChar)

SetMax(S) == CHOOSE x \in S : \A y \in S : x >= y

(***************************************************************************)
(* The contacts of the user and the CSV rows the runs draw from            *)
(***************************************************************************)
MaxContacts == 2
MaxRows == 2

\* Rows of the contacts table as get_user_contacts_for_matching selects them
\* (id, names, email, phone and the text columns, of which company stands for
\* all; role and category are not selected).
ContactUniverse ==
    { [id |-> "k1", first_name |-> <<"A", "l">>, last_name |-> <<"L", "i">>,
       email |-> <<"A", "@", "x">>, phone |-> <<"+", "1", " ", "2">>,
       company |-> <<"c">>],
      [id |-> "k2", first_name |-> <<"a", "l">>, last_name |-> <<"l", "i">>,
       email |-> <<"a", "@", "x">>, phone |-> NONE, company |-> <<>>],
      [id |-> "k3", first_name |-> <<"B", "o">>, last_name |-> <<"L", "i">>,
       email |-> NONE, phone |-> <<"+", "1", "2">>, company |-> <<"d">>],
      [id |-> "k4", first_name |-> NONE, last_name |-> <<"L", "i">>,
       email |-> <<"b", "@", "x">>, phone |-> <<"9">>, company |-> NONE] }

\* The user's contacts: up to MaxContacts distinct rows, in the order of the
\* select (ORDER BY created_at DESC).
ContactLists ==
    UNION { { cs \in [1..n -> ContactUniverse] :
                \A i, k \in 1..n : i # k => cs[i].id # cs[k].id }
            : n \in 0..MaxContacts }

\* CSV rows as parse_csv returns them (values stripped, "" for an empty
\* cell), keyed by the contact field their column is mapped to.
RawRows ==
    [ first_name : {<<"A", "l">>, <<"B", "o">>},
      last_name : {<<"L", "i">>, <<>>},
      email : {<<>>, <<"a", "@", "x">>, <<"A", "@", "x">>},
      phone : {<<>>, <<"+", "1", "2">>},
      company : {<<>>, <<"C">>, <<"d">>} ]

MappedFields == {"first_name", "last_name", "email", "phone", "company"}

VALID_ROLES ==
    { <<"b", "u", "y", "e", "r">>, <<"s", "e", "l", "l", "e", "r">>,
      <<"l", "e", "n", "d", "e", "r">>, <<"t", "e", "n", "a", "n", "t">>,
      <<"l", "a", "n", "d", "l", "o", "r", "d">>, <<"o", "t", "h", "e", "r">> }

\* What role deduction leaves in a row that had no role: a valid role (one
\* stands for all six), or nothing when the classifier's list was shorter
\* than the batch.
DeducedRoles == {<<"b", "u", "y", "e", "r">>, NONE}

(***************************************************************************)
(* analyze_rows                                                            *)
(***************************************************************************)

\* _apply_mapping for the text fields: the stripped value, kept when it is
\* not empty.  mapped_data.get(f) is NONE for a field that is not set.
ApplyMapping(raw_row) ==
    [f \in MappedFields \cup {"role"} |->
        IF f = "role" THEN NONE
        ELSE LET value == Strip(raw_row[f]) IN
             IF value # <<>> THEN value ELSE NONE]

NoContact == [id |-> NULL]

\* email_index[key]: a dict comprehension, so the last contact with the key.
EmailIndexGet(ec, key) ==
    LET I == {i \in DOMAIN ec :
                Truthy(ec[i].email) /\ Lower(ec[i].email) = key} IN
    IF I = {} THEN NoContact ELSE ec[SetMax(I)]

\* phone_index[key]
PhoneIndexGet(ec, key) ==
    LET I == {i \in DOMAIN ec :
                Truthy(ec[i].phone) /\ NormalizePhone(ec[i].phone) = key} IN
    IF I = {} THEN NoContact ELSE ec[SetMax(I)]

\* f"{c['first_name']} {c['last_name']}".lower().strip()
ContactNameKey(c) ==
    Strip(Lower(PyStr(c.first_name) \o <<" ">> \o PyStr(c.last_name)))

\* name_index[key]
NameIndexGet(ec, key) ==
    LET I == {i \in DOMAIN ec :
                ContactNameKey(ec[i]) # <<>> /\ ContactNameKey(ec[i]) = key} IN
    IF I = {} THEN NoContact ELSE ec[SetMax(I)]

NoMatch == [match |-> NoContact, confidence |-> NULL, match_type |-> NULL]

EmailMatch(mapped_data, ec) ==
    IF Truthy(mapped_data.email)
    THEN EmailIndexGet(ec, Lower(mapped_data.email)) ELSE NoContact

PhoneMatch(mapped_data, ec) ==
    IF Truthy(mapped_data.phone) /\ NormalizePhone(mapped_data.phone) # <<>>
    THEN PhoneIndexGet(ec, NormalizePhone(mapped_data.phone)) ELSE NoContact

NameMatch(mapped_data, ec) ==
    IF Truthy(mapped_data.first_name) /\ Truthy(mapped_data.last_name)
    THEN NameIndexGet(ec, Lower(mapped_data.first_name \o <<" ">>
                                    \o mapped_data.last_name))
    ELSE NoContact

\* The phone index consulted before the e-mail index.
FindMatchingContact_PhoneFirst(mapped_data, ec) ==
    LET e == EmailMatch(mapped_data, ec)
        p == PhoneMatch(mapped_data, ec)
        n == NameMatch(mapped_data, ec) IN
    IF p.id # NULL
    THEN [match |-> p, confidence |-> "0.90", match_type |-> "phone"]
    ELSE IF e.id # NULL
    THEN [match |-> e, confidence |-> "0.95", match_type |-> "email"]
    ELSE IF n.id # NULL
    THEN [match |-> n, confidence |-> "0.75", match_type |-> "name"]
    ELSE NoMatch

\* _find_matching_contact: e-mail, then phone, then full name.
FindMatchingContact(mapped_data, ec) ==
    LET e == EmailMatch(mapped_data, ec)
        p == PhoneMatch(mapped_data, ec)
        n == NameMatch(mapped_data, ec) IN
    IF e.id # NULL
    THEN [match |-> e, confidence |-> "0.95", match_type |-> "email"]
    ELSE IF p.id # NULL
    THEN [match |-> p, confidence |-> "0.90", match_type |-> "phone"]
    ELSE IF n.id # NULL
    THEN [match |-> n, confidence |-> "0.75", match_type |-> "name"]
    ELSE NoMatch

\* The conflict fields among the modelled ones, in the code's order.
ConflictFields == <<"phone", "company", "role">>

\* existing_contact.get(field)
ContactGet(c, field) == IF field \in DOMAIN c THEN c[field] ELSE NONE

\* Both sides have a value and the values differ once stripped, lower-cased.
IsConflict(mapped_data, existing_contact, field) ==
    /\ Truthy(mapped_data[field])
    /\ Truthy(ContactGet(existing_contact, field))
    /\ Lower(Strip(PyStr(mapped_data[field])))
         # Lower(Strip(PyStr(ContactGet(existing_contact, field))))

\* _detect_conflicts
DetectConflicts(mapped_data, existing_contact) ==
    LET IsC(f) == IsConflict(mapped_data, existing_contact, f)
        F == SelectSeq(ConflictFields, IsC) IN
    [i \in 1..Len(F) |->
        [field |-> F[i], existing |-> ContactGet(existing_contact, F[i]),
         new |-> mapped_data[F[i]]]]

\* Every matched row classified duplicate.
Disposition_AlwaysDuplicate(conflicts) == "duplicate"

\* if conflicts: status = "conflict" else: status = "duplicate"
Disposition(conflicts) == IF conflicts # <<>> THEN "conflict" ELSE "duplicate"

\* analyze_rows without the check of the required fields.
AnalyzeRow_NoDrop(row_number, raw_row, deduced_role, ec) ==
    LET m0 == ApplyMapping(raw_row)
        mapped_data == [m0 EXCEPT !.role = deduced_role]
        found == FindMatchingContact(mapped_data, ec) IN
    IF found.match.id # NULL
    THEN LET conflicts == DetectConflicts(mapped_data, found.match) IN
         << [row_number |-> row_number, mapped_data |-> mapped_data,
             status |-> Disposition(conflicts),
             matched_contact_id |-> found.match.id,
             match_confidence |-> found.confidence,
             conflicts |-> conflicts] >>
    ELSE << [row_number |-> row_number, mapped_data |-> mapped_data,
             status |-> "new", matched_contact_id |-> NULL,
             match_confidence |-> NULL, conflicts |-> <<>>] >>

\* One CSV row through phases 1 to 3 of analyze_rows: the ImportRow emitted
\* for it, or nothing when first or last name is missing.  conflicts = <<>>
\* stands for conflicts=None; the confidences are the code's floats.
AnalyzeRow(row_number, raw_row, deduced_role, ec) ==
    LET m0 == ApplyMapping(raw_row) IN
    IF ~Truthy(m0.first_name) \/ ~Truthy(m0.last_name) THEN <<>>
    ELSE
      LET mapped_data == [m0 EXCEPT !.role = deduced_role]
          found == FindMatchingContact(mapped_data, ec) IN
      IF found.match.id # NULL
      THEN LET conflicts == DetectConflicts(mapped_data, found.match) IN
           << [row_number |-> row_number, mapped_data |-> mapped_data,
               status |-> Disposition(conflicts),
               matched_contact_id |-> found.match.id,
               match_confidence |-> found.confidence,
               conflicts |-> conflicts] >>
      ELSE << [row_number |-> row_number, mapped_data |-> mapped_data,
               status |-> "new", matched_contact_id |-> NULL,
               match_confidence |-> NULL, conflicts |-> <<>>] >>

ZeroStats == [created |-> 0, updated |-> 0, skipped |-> 0, errors |-> 0]

ExecIdle ==
    /\ x_phase = "idle" /\ x_n = 0 /\ x_row = <<>> /\ x_pending = NULL
    /\ x_stats = ZeroStats /\ x_inserted = 0
    /\ x_last = <<>> /\ x_results = <<>>

\* An import job claimed in status analyzing, at the call of analyze_rows.
AnalyzeInit ==
    /\ contacts \in ContactLists
    /\ existing_contacts = <<>>
    /\ a_phase = "load"
    /\ a_row_number = 0 /\ a_saved = 0
    /\ a_row = <<>>
    /\ ExecIdle
    /\ LeaseIdle /\ PollerIdle /\ RouterIdle /\ ScenarioIdle
    /\ DateIdle

\* existing_contacts = await Database.get_user_contacts_for_matching(user_id)
LoadContacts ==
    /\ a_phase = "load"
    /\ existing_contacts' = contacts
    /\ a_phase' = "rows"
    /\ UNCHANGED <<contacts, a_row_number, a_saved, a_row, execVars, notImport>>

\* The select raises: get_user_contacts_for_matching logs and returns [].
LoadContactsFails ==
    /\ a_phase = "load"
    /\ existing_contacts' = <<>>
    /\ a_phase' = "rows"
    /\ UNCHANGED <<contacts, a_row_number, a_saved, a_row, execVars, notImport>>

\* The next CSV row is mapped, given its role and matched against the
\* snapshot.
AnalyzeNextRow(raw_row, deduced_role) ==
    /\ a_phase = "rows"
    /\ a_row_number < MaxRows
    /\ a_row_number' = a_row_number + 1
    /\ a_row' = AnalyzeRow(a_row_number + 1, raw_row, deduced_role,
                           existing_contacts)
    /\ a_saved' = a_saved + Len(a_row')
    /\ UNCHANGED <<contacts, existing_contacts, a_phase, execVars, notImport>>

\* analyze_rows returns (the CSV had at least one row) and the rows are saved.
AnalysisDone ==
    /\ a_phase = "rows"
    /\ a_row_number >= 1
    /\ a_phase' = "done"
    /\ a_row' = <<>>
    /\ UNCHANGED <<contacts, existing_contacts, a_row_number, a_saved,
                   execVars, notImport>>

AnalyzeNext ==
    \/ LoadContacts
    \/ LoadContactsFails
    \/ \E raw_row \in RawRows, role \in DeducedRoles :
            AnalyzeNextRow(raw_row, role)
    \/ AnalysisDone

SpecAnalyze == AnalyzeInit /\ [][AnalyzeNext]_vars

(***************************************************************************)
(* Properties of analyze_rows                                              *)
(***************************************************************************)

\* Snapshot positions whose e-mail equals the row's, both lower-cased.
EmailHits(m) ==
    {i \in DOMAIN existing_contacts :
        /\ Truthy(m.email) /\ Truthy(existing_contacts[i].email)
        /\ Lower(m.email) = Lower(existing_contacts[i].email)}

\* Snapshot positions whose phone, reduced to digits and '+', is the row's.
PhoneHits(m) ==
    {i \in DOMAIN existing_contacts :
        /\ Truthy(m.phone) /\ Truthy(existing_contacts[i].phone)
        /\ NormalizePhone(m.phone) # <<>>
        /\ NormalizePhone(m.phone)
             = NormalizePhone(existing_contacts[i].phone)}

\* Snapshot positions whose lower-cased "first last" is the row's.
NameHits(m) ==
    {i \in DOMAIN existing_contacts :
        /\ Truthy(m.first_name) /\ Truthy(m.last_name)
        /\ Lower(m.first_name \o <<" ">> \o m.last_name)
             = ContactNameKey(existing_contacts[i])}

\* C9 as stated: a row whose mapped e-mail equals the lower-cased e-mail of
\* a contact of the snapshot is matched to that contact with confidence
\* 0.95; a phone match is made only without an e-mail hit, a name match
\* only without an e-mail or phone hit.
C9_Original ==
    a_row # <<>> =>
      LET r == a_row[1]
          m == r.mapped_data IN
      /\ \A i \in DOMAIN existing_contacts :
            ( /\ Truthy(existing_contacts[i].email)
              /\ m.email = Lower(existing_contacts[i].email) )
            => ( /\ r.matched_contact_id = existing_contacts[i].id
                 /\ r.match_confidence = "0.95" )
      /\ r.match_confidence = "0.90" => EmailHits(m) = {}
      /\ r.match_confidence = "0.75" =>
            EmailHits(m) = {} /\ PhoneHits(m) = {}

\* C9 (amended): an e-mail hit always wins with confidence 0.95 and the row
\* is matched to the last contact of the snapshot bearing that e-mail; the
\* phone decides (0.90, last contact with the phone) only when there is no
\* e-mail hit, the name (0.75, last contact with the name) only when there
\* is neither; without any hit the row has no match.
C9_MatchPriority ==
    a_row # <<>> =>
      LET r == a_row[1]
          m == r.mapped_data
          E == EmailHits(m)
          P == PhoneHits(m)
          N == NameHits(m) IN
      /\ E # {} =>
            /\ r.matched_contact_id = existing_contacts[SetMax(E)].id
            /\ r.match_confidence = "0.95"
      /\ (E = {} /\ P # {}) =>
            /\ r.matched_contact_id = existing_contacts[SetMax(P)].id
            /\ r.match_confidence = "0.90"
      /\ (E = {} /\ P = {} /\ N # {}) =>
            /\ r.matched_contact_id = existing_contacts[SetMax(N)].id
            /\ r.match_confidence = "0.75"
      /\ (E = {} /\ P = {} /\ N = {}) =>
            /\ r.matched_contact_id = NULL
            /\ r.match_confidence = NULL

\* A row matched by e-mail although its phone is that of another contact.
C9_Witness ==
    /\ a_row # <<>>
    /\ a_row[1].match_confidence = "0.95"
    /\ \E i \in PhoneHits(a_row[1].mapped_data) :
          existing_contacts[i].id # a_row[1].matched_contact_id
    /\ NameHits(a_row[1].mapped_data) # {}

\* C10: every emitted ImportRow is new exactly when no contact matched (and
\* then has no matched contact, confidence or conflicts), conflict exactly
\* when a contact matched and the conflict list is not empty, duplicate
\* exactly when a contact matched and there are no conflict entries; a row
\* with both names and no hit in any index is new.
C10_Disposition ==
    a_row # <<>> =>
      LET r == a_row[1]
          m == r.mapped_data
          matched == r.matched_contact_id # NULL IN
      /\ r.status \in {"new", "duplicate", "conflict"}
      /\ r.status = "new" <=> ~matched
      /\ r.status = "new" =>
            r.match_confidence = NULL /\ r.conflicts = <<>>
      /\ r.status = "conflict" <=> (matched /\ r.conflicts # <<>>)
      /\ r.status = "duplicate" <=> (matched /\ r.conflicts = <<>>)
      /\ matched <=> r.match_confidence # NULL
      /\ ( /\ Truthy(m.first_name) /\ Truthy(m.last_name)
           /\ EmailHits(m) = {} /\ PhoneHits(m) = {} /\ NameHits(m) = {} )
         => r.status = "new"

\* A row matched to a contact whose company differs from the imported one.
C10_Witness ==
    /\ a_row # <<>>
    /\ a_row[1].status = "conflict"
    /\ a_row[1].matched_contact_id # NULL
    /\ \E k \in DOMAIN a_row[1].conflicts :
          a_row[1].conflicts[k].field = "company"

(***************************************************************************)
(* execute_import                                                          *)
(***************************************************************************)
Range(seq) == {seq[i] : i \in DOMAIN seq}

\* The CSV rows behind the rows a run fetches.
FetchedRawRows ==
    [ first_name : {<<"A", "l">>},
      last_name : {<<"L", "i">>},
      email : {<<>>, <<"A", "@", "x">>},
      phone : {<<>>, <<"+", "1", "2">>},
      company : {<<"d">>} ]

\* The role of a fetched row: execute_import does not branch on it and
\* update_contact does not write it.
FetchedRoles == {NONE}

\* overwrite_fields as the driver delivers it: NULL, a list of field names,
\* or JSON text of such a list (fields is then what json.loads returns).
NoList == [kind |-> "null", fields |-> <<>>]

NoReview == [decision |-> NULL, overwrite_fields |-> NoList]

\* What a reviewer may have left on a duplicate or conflict row that the
\* fetch returns (rows decided 'skip' are not fetched).
ReviewChoices ==
    { NoReview,
      [decision |-> "create", overwrite_fields |-> NoList],
      [decision |-> "update", overwrite_fields |-> NoList],
      [decision |-> "update",
       overwrite_fields |-> [kind |-> "list", fields |-> <<>>]],
      [decision |-> "update",
       overwrite_fields |-> [kind |-> "list", fields |-> <<"phone">>]],
      [decision |-> "update",
       overwrite_fields |-> [kind |-> "text", fields |-> <<>>]],
      [decision |-> "update",
       overwrite_fields |-> [kind |-> "text",
                             fields |-> <<"phone", "company">>]],
      [decision |-> NULL,
       overwrite_fields |-> [kind |-> "list", fields |-> <<"company">>]] }

\* if overwrite_fields: a non-empty list, or any JSON text ("[]" included).
OverwriteTruthy(o) ==
    \/ o.kind = "list" /\ o.fields # <<>>
    \/ o.kind = "text"

\* The modelled ones of update_contact's allowed_fields (role and category
\* are not among them).
allowed_fields == {"first_name", "last_name", "email", "phone", "company"}

\* The assignment with the CASE dropped.
SetClause_Unconditional(only_empty_fields, current, value) == value

\* f = CASE WHEN f IS NULL OR f = '' THEN $n ELSE f END, or f = $n
SetClause(only_empty_fields, current, value) ==
    IF only_empty_fields
    THEN IF current = NONE \/ current = <<>> THEN value ELSE current
    ELSE value

\* The contacts row after update_contact's UPDATE.
UpdateContact(current, update_data, only_empty_fields, specific_fields) ==
    [f \in DOMAIN current |->
        IF /\ f \in allowed_fields
           /\ f \in DOMAIN update_data
           /\ update_data[f] # NONE
           /\ ~(Truthy(specific_fields) /\ f \notin Range(specific_fields))
        THEN SetClause(only_empty_fields, current[f], update_data[f])
        ELSE current[f]]

\* The branches with an undecided row left alone.
RowAction_UndecidedSkips(status, decision, matched_contact_id) ==
    IF status = "new" THEN "create"
    ELSE IF status \notin {"duplicate", "conflict"} THEN "none"
    ELSE IF decision = "skip" THEN "skip"
    ELSE IF decision = "create" THEN "create"
    ELSE IF decision = "update"
         THEN IF matched_contact_id # NULL THEN "update" ELSE "create"
    ELSE "skip"

\* The if / elif chain of execute_import on status and decision.  The last
\* branch (a decision other than skip, create, update or None) is the only
\* one that looks at the mode.
RowAction(status, decision, matched_contact_id) ==
    IF status = "new" THEN "create"
    ELSE IF status \notin {"duplicate", "conflict"} THEN "none"
    ELSE IF decision = "skip" THEN "skip"
    ELSE IF decision = "create" THEN "create"
    ELSE IF decision \in {"update", NULL}
         THEN IF matched_contact_id # NULL THEN "update" ELSE "create"
    ELSE "mode default"

CreatePath(row) ==
    RowAction(row.status, row.decision, row.matched_contact_id) = "create"

UpdatePath(row) ==
    RowAction(row.status, row.decision, row.matched_contact_id) = "update"

\* rows = await Database.get_import_rows_for_processing(job_id): the saved
\* rows not decided 'skip', or [] when the select raises.
ExecFetch ==
    /\ a_phase = "done"
    /\ x_phase = "idle"
    /\ \E n \in 0..MaxRows : x_n' = n
    /\ x_phase' = "loop"
    /\ x_stats' = ZeroStats
    /\ UNCHANGED <<contacts, analysisVars, x_row, x_pending, x_inserted,
                   x_last, x_results, notImport>>

\* for row in rows: the next fetched row, as analysis saved it and the
\* reviewer left it.
ExecNextRow(raw_row, deduced_role, review) ==
    /\ x_phase = "loop"
    /\ Len(x_results) < x_n
    /\ LET saved == AnalyzeRow(Len(x_results) + 1, raw_row, deduced_role,
                               existing_contacts) IN
       /\ saved # <<>>
       /\ saved[1].status = "new" => review = NoReview
       /\ x_row' = << [row_number |-> saved[1].row_number,
                       mapped_data |-> saved[1].mapped_data,
                       status |-> saved[1].status,
                       matched_contact_id |-> saved[1].matched_contact_id,
                       decision |-> review.decision,
                       overwrite_fields |-> review.overwrite_fields] >>
    /\ x_phase' = "act"
    /\ UNCHANGED <<contacts, analysisVars, x_n, x_pending, x_stats,
                   x_inserted, x_last, x_results, notImport>>

\* contact_id = await Database.create_contact(user_id, mapped_data)
ExecCreate ==
    /\ x_phase = "act"
    /\ CreatePath(x_row[1])
    /\ x_inserted' = x_inserted + 1
    /\ x_pending' = "created"
    /\ x_phase' = "record"
    /\ UNCHANGED <<contacts, analysisVars, x_n, x_row, x_stats, x_last,
                   x_results, notImport>>

\* create_contact raises.
ExecCreateRaises ==
    /\ x_phase = "act"
    /\ CreatePath(x_row[1])
    /\ x_pending' = "create failed"
    /\ x_phase' = "except"
    /\ UNCHANGED <<contacts, analysisVars, x_n, x_row, x_stats, x_inserted,
                   x_last, x_results, notImport>>

\* await Database.update_contact(matched_contact_id, mapped_data, ...)
ExecUpdate ==
    /\ x_phase = "act"
    /\ UpdatePath(x_row[1])
    /\ LET row == x_row[1]
           o == row.overwrite_fields
           only_empty_fields == ~OverwriteTruthy(o)
           specific_fields == IF OverwriteTruthy(o) THEN o.fields ELSE NONE
           i == CHOOSE k \in DOMAIN contacts :
                    contacts[k].id = row.matched_contact_id IN
       /\ contacts' = [contacts EXCEPT
                         ![i] = UpdateContact(@, row.mapped_data,
                                              only_empty_fields,
                                              specific_fields)]
       /\ x_last' = << [contact_id |-> row.matched_contact_id,
                        only_empty_fields |-> only_empty_fields,
                        specific_fields |-> specific_fields,
                        before |-> contacts[i]] >>
    /\ x_pending' = "updated"
    /\ x_phase' = "record"
    /\ UNCHANGED <<analysisVars, x_n, x_row, x_stats, x_inserted, x_results,
                   notImport>>

\* update_contact raises.
ExecUpdateRaises ==
    /\ x_phase = "act"
    /\ UpdatePath(x_row[1])
    /\ x_pending' = "update failed"
    /\ x_phase' = "except"
    /\ UNCHANGED <<contacts, analysisVars, x_n, x_row, x_stats, x_inserted,
                   x_last, x_results, notImport>>

\* await Database.update_import_row_result(row_id, "imported", contact_id)
\* and the stats counter that follows it.
ExecRecord ==
    /\ x_phase = "record"
    /\ x_results' = Append(x_results, [row_number |-> x_row[1].row_number,
                                       status |-> "imported",
                                       error |-> NULL])
    /\ x_stats' = [x_stats EXCEPT ![x_pending] = @ + 1]
    /\ x_phase' = "loop"
    /\ x_row' = <<>>
    /\ x_pending' = NULL
    /\ x_last' = <<>>
    /\ UNCHANGED <<contacts, analysisVars, x_n, x_inserted, notImport>>

\* update_import_row_result raises inside the try.
ExecRecordRaises ==
    /\ x_phase = "record"
    /\ x_pending' = "record failed"
    /\ x_phase' = "except"
    /\ UNCHANGED <<contacts, analysisVars, x_n, x_row, x_stats, x_inserted,
                   x_last, x_results, notImport>>

\* The except branch without its counter: the row is written skipped and
\* counted nowhere.
ExecExcept_Uncounted ==
    /\ x_phase = "except"
    /\ x_results' = Append(x_results, [row_number |-> x_row[1].row_number,
                                       status |-> "skipped",
                                       error |-> x_pending])
    /\ x_phase' = "loop"
    /\ x_row' = <<>>
    /\ x_pending' = NULL
    /\ x_last' = <<>>
    /\ UNCHANGED <<contacts, analysisVars, x_n, x_stats, x_inserted, notImport>>

\* except Exception as e: the row is written skipped with error=str(e).
ExecExcept ==
    /\ x_phase = "except"
    /\ x_results' = Append(x_results, [row_number |-> x_row[1].row_number,
                                       status |-> "skipped",
                                       error |-> x_pending])
    /\ x_stats' = [x_stats EXCEPT !.errors = @ + 1]
    /\ x_phase' = "loop"
    /\ x_row' = <<>>
    /\ x_pending' = NULL
    /\ x_last' = <<>>
    /\ UNCHANGED <<contacts, analysisVars, x_n, x_inserted, notImport>>

\* The write in the except branch raises: nothing catches it inside
\* execute_import, which ends with the rows left unprocessed.
ExecExceptRaises ==
    /\ x_phase = "except"
    /\ x_phase' = "raised"
    /\ UNCHANGED <<contacts, analysisVars, x_n, x_row, x_pending, x_stats,
                   x_inserted, x_last, x_results, notImport>>

\* return stats
ExecReturn ==
    /\ x_phase = "loop"
    /\ Len(x_results) = x_n
    /\ x_phase' = "returned"
    /\ UNCHANGED <<contacts, analysisVars, x_n, x_row, x_pending, x_stats,
                   x_inserted, x_last, x_results, notImport>>

\* An import job claimed in status processing, at the call of
\* execute_import: its rows were analysed against the contacts as they are,
\* or against nothing when the load of the snapshot had failed.
ExecInit ==
    /\ contacts \in ContactLists
    /\ existing_contacts \in {contacts, <<>>}
    /\ a_phase = "done"
    /\ a_row_number = 0 /\ a_saved = 0
    /\ a_row = <<>>
    /\ ExecIdle
    /\ LeaseIdle /\ PollerIdle /\ RouterIdle /\ ScenarioIdle
    /\ DateIdle

ExecNext ==
    \/ ExecFetch
    \/ \E raw_row \in FetchedRawRows, role \in FetchedRoles,
          review \in ReviewChoices : ExecNextRow(raw_row, role, review)
    \/ ExecCreate
    \/ ExecCreateRaises
    \/ ExecUpdate
    \/ ExecUpdateRaises
    \/ ExecRecord
    \/ ExecRecordRaises
    \/ ExecExcept
    \/ ExecExceptRaises
    \/ ExecReturn

SpecExecute == ExecInit /\ [][ExecNext]_vars


(***************************************************************************)
(* Properties of execute_import                                            *)
(***************************************************************************)

C7_OverwriteOnlyListed ==
    [][ ( /\ x_phase = "act" /\ x_phase' = "record"
          /\ UpdatePath(x_row[1])
          /\ x_row[1].overwrite_fields.kind # "null" )
        => \A i \in DOMAIN contacts : \A f \in DOMAIN contacts[i] :
              f \notin Range(x_row[1].overwrite_fields.fields)
                => contacts'[i][f] = contacts[i][f] ]_vars

\* C8: a row whose create, update or result write failed is written
\* skipped with the error text and counted in errors, and the loop goes on
\* to the rows after it.
C8_RowFailureIsolated ==
    [][ x_phase = "except"
        => /\ x_phase' = "loop"
           /\ x_results' = Append(x_results,
                                  [row_number |-> x_row[1].row_number,
                                   status |-> "skipped",
                                   error |-> x_pending])
           /\ x_stats'.errors = x_stats.errors + 1 ]_vars

(***************************************************************************)
(* One import job end to end: column mapping, analysis, routing, execution *)
(***************************************************************************)

\* a in b
IsSubstring(a, b) ==
    \E i \in 0..(Len(b) - Len(a)) : SubSeq(b, i + 1, i + Len(a)) = a

\* CONTACT_FIELDS, in the dict's order, for the modelled fields (they are
\* the first five entries; no header of HeaderLines matches a keyword of
\* the entries after them).
CONTACT_FIELDS ==
    <<
      [field |-> "first_name",
       keywords |->
         << <<"f", "i", "r", "s", "t", " ", "n", "a", "m", "e">>,
            <<"n", "o", "m", "b", "r", "e">>, <<"f", "i", "r", "s", "t">>,
            <<"g", "i", "v", "e", "n", " ", "n", "a", "m", "e">>,
            <<"n", "o", "m", "b", "r", "e", " ", "d", "e", " ", "p", "i", "l", "a">> >>],
      [field |-> "last_name",
       keywords |->
         << <<"l", "a", "s", "t", " ", "n", "a", "m", "e">>,
            <<"a", "p", "e", "l", "l", "i", "d", "o">>,
            <<"a", "p", "e", "l", "l", "i", "d", "o", "s">>,
            <<"s", "u", "r", "n", "a", "m", "e">>,
            <<"f", "a", "m", "i", "l", "y", " ", "n", "a", "m", "e">>,
            <<"l", "a", "s", "t">> >>],
      [field |-> "email",
       keywords |->
         << <<"e", "m", "a", "i", "l">>, <<"c", "o", "r", "r", "e", "o">>,
            <<"e", "-", "m", "a", "i", "l">>,
            <<"c", "o", "r", "r", "e", "o", " ", "e", "l", "e", "c", "t", "r", "o", "n", "i", "c", "o">>,
            <<"m", "a", "i", "l">> >>],
      [field |-> "phone",
       keywords |->
         << <<"p", "h", "o", "n", "e">>,
            <<"t", "e", "l", "e", "f", "o", "n", "o">>, <<"t", "e", "l">>,
            <<"m", "o", "b", "i", "l", "e">>, <<"m", "o", "v", "i", "l">>,
            <<"c", "e", "l", "u", "l", "a", "r">>,
            <<"t", "e", "l", "e", "p", "h", "o", "n", "e">> >>],
      [field |-> "company",
       keywords |->
         << <<"c", "o", "m", "p", "a", "n", "y">>,
            <<"e", "m", "p", "r", "e", "s", "a">>,
            <<"o", "r", "g", "a", "n", "i", "z", "a", "t", "i", "o", "n">>,
            <<"o", "r", "g", "a", "n", "i", "z", "a", "c", "i", "o", "n">>,
            <<"c", "o", "m", "p", "a", "n", "i", "a">>,
            <<"b", "u", "s", "i", "n", "e", "s", "s">> >>]
    >>

\* The text signals of _heuristic_role_deduction, in the order of its elif
\* chain.
ROLE_SIGNALS ==
    <<
      [role |-> <<"b", "u", "y", "e", "r">>,
       keywords |->
         << <<"b", "u", "y", "i", "n", "g">>,
            <<"p", "u", "r", "c", "h", "a", "s", "e">>,
            <<"l", "o", "o", "k", "i", "n", "g", " ", "f", "o", "r", " ", "h", "o", "m", "e">>,
            <<"h", "o", "u", "s", "e", " ", "h", "u", "n", "t", "i", "n", "g">>,
            <<"c", "o", "m", "p", "r", "a", "r">>,
            <<"b", "u", "s", "c", "a", " ", "c", "a", "s", "a">> >>],
      [role |-> <<"s", "e", "l", "l", "e", "r">>,
       keywords |->
         << <<"s", "e", "l", "l", "i", "n", "g">>,
            <<"l", "i", "s", "t", " ", "m", "y">>,
            <<"o", "w", "n", " ", "p", "r", "o", "p", "e", "r", "t", "y">>,
            <<"v", "e", "n", "d", "e", "r">>,
            <<"m", "i", " ", "c", "a", "s", "a">> >>],
      [role |-> <<"t", "e", "n", "a", "n", "t">>,
       keywords |->
         << <<"r", "e", "n", "t", "i", "n", "g">>,
            <<"l", "e", "a", "s", "e">>,
            <<"a", "p", "a", "r", "t", "m", "e", "n", "t">>,
            <<"a", "l", "q", "u", "i", "l", "e", "r">>,
            <<"p", "i", "s", "o">> >>],
      [role |-> <<"l", "a", "n", "d", "l", "o", "r", "d">>,
       keywords |->
         << <<"r", "e", "n", "t", "a", "l", " ", "p", "r", "o", "p", "e", "r", "t", "y">>,
            <<"i", "n", "v", "e", "s", "t", "m", "e", "n", "t">>,
            <<"t", "e", "n", "a", "n", "t">>,
            <<"i", "n", "q", "u", "i", "l", "i", "n", "o">>,
            <<"a", "l", "q", "u", "i", "l", "a", "r", " ", "m", "i">> >>]
    >>

\* The header lines of the modelled CSV files.
HeaderLines ==
    { <<<<"N", "o", "m", "b", "r", "e">>, <<"A", "p", "e", "l", "l", "i", "d", "o">>, <<"C", "o", "r", "r", "e", "o">>>>,
      <<<<"N", "o", "m", "b", "r", "e">>, <<"A", "p", "e", "l", "l", "i", "d", "o">>, <<"C", "o", "r", "r", "e", "o">>, <<"T", "e", "l">>>>,
      <<<<"N", "o", "m", "b", "r", "e">>, <<"A", "p", "e", "l", "l", "i", "d", "o">>, <<"C", "o", "r", "r", "e", "o">>, <<"T", "e", "l">>, <<"Z", "z">>>>,
      <<<<"N", "o", "m", "b", "r", "e">>, <<"N", "a", "m", "e">>>>,
      <<<<"N", "o", "m", "b", "r", "e">>, <<"Z", "z">>>> }

\* The rows a CSV file of the model may hold, by number of columns.
CsvRowUniverse(n) ==
    CASE n = 3 ->
           { <<<<"A", "n", "a">>, <<"G", "o", "m", "e", "z">>, <<"a", "n", "a", "@", "x", ".", "c", "o", "m">>>>,
             <<<<"A", "l">>, <<"L", "i">>, <<"A", "@", "x">>>> }
      [] n = 4 ->
           { <<<<"A", "l">>, <<"L", "i">>, <<>>, <<"+", "1", "2">>>>,
             <<<<"B", "o">>, <<>>, <<"a", "@", "x">>, <<"9">>>> }
      [] n = 5 ->
           { <<<<"A", "n", "a">>, <<"G", "o", "m", "e", "z">>, <<"a", "n", "a", "@", "x", ".", "c", "o", "m">>, <<>>, <<"q">>>> }
      [] OTHER ->
           { <<<<"A", "n", "a">>, <<"G", "o", "m", "e", "z">>>> }

\* CSV files: a header line and one to MaxRows rows under it.
CsvFiles ==
    UNION { { [headers |-> h, rows |-> rs] :
                rs \in UNION { [1..n -> CsvRowUniverse(Len(h))]
                               : n \in 1..MaxRows } }
            : h \in HeaderLines }

\* header.lower().strip()
HeaderLower(header) == Strip(Lower(header))

\* A match that looks for the keyword in the header only.
KeywordMatch_OneWay(keyword, header_lower) ==
    IsSubstring(keyword, header_lower)

\* keyword in header_lower or header_lower in keyword
KeywordMatch(keyword, header_lower) ==
    IsSubstring(keyword, header_lower) \/ IsSubstring(header_lower, keyword)

FieldMatches(k, header_lower) ==
    \E i \in DOMAIN CONTACT_FIELDS[k].keywords :
        KeywordMatch(CONTACT_FIELDS[k].keywords[i], header_lower)

\* _heuristic_column_mapping: each header, in order, takes the first field
\* of CONTACT_FIELDS one of whose keywords matches and that no earlier
\* header took.  acc is the mapping of the headers done so far, position by
\* position (NULL: not mapped).
RECURSIVE HeuristicColumnMapping(_, _)
HeuristicColumnMapping(headers, acc) ==
    IF Len(acc) = Len(headers) THEN acc
    ELSE
      LET header_lower == HeaderLower(headers[Len(acc) + 1])
          free == {k \in DOMAIN CONTACT_FIELDS :
                     /\ FieldMatches(k, header_lower)
                     /\ CONTACT_FIELDS[k].field \notin Range(acc)}
          field == IF free = {} THEN NULL
                   ELSE CONTACT_FIELDS[SetMin(free)].field IN
      HeuristicColumnMapping(headers, Append(acc, field))

\* A failed call that leaves a partial answer behind.
AiFailure_Partial == [header |-> 1, field |-> "company"]

\* What _ai_column_mapping returns when the call fails (exception, status
\* other than 200, body that is not JSON): {}, an answer naming no header.
AiFailure == [header |-> 0, field |-> NULL]

\* What _ai_column_mapping may return, json.loads(content) of the
\* classifier's answer: an object naming no header, or one header of the
\* file with a contact field of the classifier's choice.  Nothing in the
\* code restricts the answer to unmapped headers or to available fields.
AiAnswers(mapping) ==
    {AiFailure} \cup [header : DOMAIN mapping, field : MappedFields]

\* mapping.update(ai_mapping)
MergeAiMapping(mapping, answer) ==
    [i \in DOMAIN mapping |->
        IF i = answer.header THEN answer.field ELSE mapping[i]]

\* The mappings map_columns_with_ai may return once it called the
\* classifier.
AiColumnMappings(mapping) ==
    {MergeAiMapping(mapping, answer) : answer \in AiAnswers(mapping)}

\* map_columns_with_ai: the mappings it may return.
MapColumns(headers, api_key) ==
    LET mapping == HeuristicColumnMapping(headers, <<>>) IN
    IF NULL \in Range(mapping) /\ api_key
    THEN AiColumnMappings(mapping) ELSE {mapping}

\* The row keyed by contact field, as _apply_mapping reads it through the
\* column mapping: of two columns mapped to one field the later non-empty
\* one stays.
FieldRow(values, mapping) ==
    [f \in MappedFields |->
        LET I == {i \in DOMAIN mapping :
                    mapping[i] = f /\ Strip(values[i]) # <<>>} IN
        IF I = {} THEN <<>> ELSE values[SetMax(I)]]

RECURSIVE JoinValues(_)
JoinValues(vs) ==
    IF vs = <<>> THEN <<>>
    ELSE IF Len(vs) = 1 THEN vs[1]
    ELSE vs[1] \o <<" ">> \o JoinValues(Tail(vs))

\* f"{notes} {raw_values}" for a row without notes.
CombinedText(values) ==
    LET NonEmpty(v) == v # <<>>
        lowered == [i \in DOMAIN values |-> Lower(values[i])] IN
    <<" ">> \o JoinValues(SelectSeq(lowered, NonEmpty))

\* The heuristic without its default.
HeuristicRoleDeduction_NoDefault(values) == NONE

\* _heuristic_role_deduction for a row without category, budget and job
\* title: the first signal found in the row's text, else "other".
HeuristicRoleDeduction(values) ==
    LET hits == {k \in DOMAIN ROLE_SIGNALS :
                    \E i \in DOMAIN ROLE_SIGNALS[k].keywords :
                       IsSubstring(ROLE_SIGNALS[k].keywords[i],
                                   CombinedText(values))} IN
    IF hits = {} THEN <<"o", "t", "h", "e", "r">>
    ELSE ROLE_SIGNALS[SetMin(hits)].role

\* deduce_roles_with_ai for one row: without an API key the heuristic; with
\* one, the classifier's role, the heuristic as its fallback, or nothing.
RoleOutcomes(values, api_key) ==
    IF api_key THEN DeducedRoles \cup {HeuristicRoleDeduction(values)}
    ELSE {HeuristicRoleDeduction(values)}

CountStatus(rows, status) ==
    Cardinality({i \in DOMAIN rows : rows[i].status = status})

\* The stats with the total only.
AnalysisStats_TotalOnly(rows) ==
    [total_rows |-> Len(rows),
     new_count |-> 0,
     duplicate_count |-> 0,
     conflict_count |-> 0]

\* stats of _analyze_job
AnalysisStats(rows) ==
    [total_rows |-> Len(rows),
     new_count |-> CountStatus(rows, "new"),
     duplicate_count |-> CountStatus(rows, "duplicate"),
     conflict_count |-> CountStatus(rows, "conflict")]

\* A contact with the names of a row of the CSV files and another e-mail.
Namesake ==
    [id |-> "k5", first_name |-> <<"A", "n", "a">>, last_name |-> <<"G", "o", "m", "e", "z">>,
     email |-> <<"g", "@", "x">>, phone |-> NONE, company |-> NONE]

\* The contacts of the user in these runs: none, or one of k1 and k3.
ScenarioContacts ==
    {cs \in ContactLists :
        Len(cs) <= 1 /\ \A i \in DOMAIN cs : cs[i].id \in {"k1", "k3"}}

\* A job claimed in status analyzing, its file downloaded and parsed.
ScnStart ==
    /\ \E csv \in CsvFiles : s_headers = csv.headers /\ s_rows = csv.rows
    /\ s_api_key \in BOOLEAN
    /\ s_mode \in Modes
    /\ s_status = "analyzing"
    /\ s_stats = <<>>
    /\ s_writes = 0
    /\ s_mapping = <<>>
    /\ s_analyzed = <<>>
    /\ s_saved = <<>>
    /\ s_ai = "not called"
    /\ s_error = NULL
    /\ s_resume = <<>>
    /\ existing_contacts = <<>>
    /\ a_phase = "map"
    /\ a_row_number = 0 /\ a_saved = 0
    /\ a_row = <<>>
    /\ ExecIdle
    /\ LeaseIdle /\ PollerIdle /\ RouterIdle /\ DateIdle

\* The job of a user who has none or one of the contacts k1 and k3.
ScnInit == ScnStart /\ contacts \in ScenarioContacts

\* _process_job's except branch: failed is written with str(e), unless that
\* write raises too and the job keeps its status.
FailedWrite(write_ok) ==
    /\ s_status' = IF write_ok THEN "failed" ELSE s_status
    /\ s_writes' = IF write_ok THEN s_writes + 1 ELSE s_writes

\* The same with the exception's text going to error_message.
FailedWriteOf(e, write_ok) ==
    /\ FailedWrite(write_ok)
    /\ s_error' = IF write_ok THEN e ELSE s_error

\* Step 3 of _analyze_job: map_columns_with_ai.  The classifier is called
\* when a header is left unmapped and an API key is configured; its call
\* fails or answers.
ScnMapColumns(ai_ok) ==
    /\ a_phase = "map"
    /\ LET mapping == HeuristicColumnMapping(s_headers, <<>>)
           called == NULL \in Range(mapping) /\ s_api_key IN
       /\ ~called => ai_ok
       /\ s_ai' = IF ~called THEN "not called"
                  ELSE IF ai_ok THEN "answered" ELSE "failed"
       /\ \E m \in MapColumns(s_headers, s_api_key) :
             /\ (called /\ ~ai_ok) => m = MergeAiMapping(mapping, AiFailure)
             /\ s_mapping' = m
    /\ a_phase' = "mapped"
    /\ UNCHANGED <<contacts, existing_contacts, a_row_number, a_saved, a_row,
                   execVars, s_analyzed, s_headers, s_rows, s_api_key, s_mode, s_status,
                   s_stats, s_writes, s_saved, s_error, leaseVars, pollerVars,
                   routerVars, dateVars, s_resume>>

\* A save of the mapping that is not followed by the look for the required
\* fields.
ScnSaveMapping_NoValidation(save_ok, failed_write_ok) ==
    /\ a_phase = "mapped"
    /\ IF save_ok
       THEN /\ failed_write_ok
            /\ a_phase' = "load"
            /\ UNCHANGED <<s_status, s_writes, s_error>>
       ELSE /\ a_phase' = "failed"
            /\ FailedWriteOf("store error", failed_write_ok)
    /\ UNCHANGED <<contacts, existing_contacts, a_row_number, a_saved, a_row,
                   execVars, s_analyzed, s_headers, s_rows, s_api_key, s_mode, s_stats,
                   s_mapping, s_saved, s_ai, leaseVars, pollerVars,
                   routerVars, dateVars, s_resume>>

\* The mapping is saved and the required fields are looked for: when the
\* save raises, or first_name or last_name is not mapped, the run ends in
\* the except branch of _process_job.
ScnSaveMapping(save_ok, failed_write_ok) ==
    /\ a_phase = "mapped"
    /\ IF save_ok /\ {"first_name", "last_name"} \subseteq Range(s_mapping)
       THEN /\ failed_write_ok
            /\ a_phase' = "load"
            /\ UNCHANGED <<s_status, s_writes, s_error>>
       ELSE /\ a_phase' = "failed"
            /\ FailedWriteOf(IF save_ok
                                THEN "Could not map required fields"
                                ELSE "store error", failed_write_ok)
    /\ UNCHANGED <<contacts, existing_contacts, a_row_number, a_saved, a_row,
                   execVars, s_analyzed, s_headers, s_rows, s_api_key, s_mode, s_stats,
                   s_mapping, s_saved, s_ai, leaseVars, pollerVars,
                   routerVars, dateVars, s_resume>>

\* An analysis whose indexes also hold the rows of the file analysed so
\* far.
ScnAnalyzeRow_SeesEarlierRows(role) ==
    /\ a_phase = "rows"
    /\ a_row_number < Len(s_rows)
    /\ role \in RoleOutcomes(s_rows[a_row_number + 1], s_api_key)
    /\ a_row_number' = a_row_number + 1
    /\ a_row' = AnalyzeRow(a_row_number + 1,
                           FieldRow(s_rows[a_row_number + 1], s_mapping),
                           role,
                           existing_contacts \o
                             [i \in DOMAIN s_analyzed |->
                                 [id |-> "row"] @@ s_analyzed[i].mapped_data])
    /\ a_saved' = a_saved + Len(a_row')
    /\ s_analyzed' = s_analyzed \o a_row'
    /\ UNCHANGED <<contacts, existing_contacts, a_phase, execVars, s_saved, s_headers,
                   s_rows, s_api_key, s_mode, s_status, s_stats, s_writes,
                   s_mapping, leaseVars, pollerVars, routerVars, dateVars,
                   s_ai, s_error, s_resume>>

\* analyze_rows for the next row of the file.
ScnAnalyzeRow(role) ==
    /\ a_phase = "rows"
    /\ a_row_number < Len(s_rows)
    /\ role \in RoleOutcomes(s_rows[a_row_number + 1], s_api_key)
    /\ a_row_number' = a_row_number + 1
    /\ a_row' = AnalyzeRow(a_row_number + 1,
                           FieldRow(s_rows[a_row_number + 1], s_mapping),
                           role, existing_contacts)
    /\ a_saved' = a_saved + Len(a_row')
    /\ s_analyzed' = s_analyzed \o a_row'
    /\ UNCHANGED <<contacts, existing_contacts, a_phase, execVars, s_saved, s_headers,
                   s_rows, s_api_key, s_mode, s_status, s_stats, s_writes,
                   s_mapping, leaseVars, pollerVars, routerVars, dateVars,
                   s_ai, s_error, s_resume>>

\* The proper prefixes of a sequence.
ProperPrefixes(seq) == {SubSeq(seq, 1, k) : k \in 0..(Len(seq) - 1)}

\* Step 5 of _analyze_job with the error of save_import_rows swallowed: the
\* run goes on to the status write whatever part of the rows was stored.
ScnSaveRows_Unchecked(save_ok, failed_write_ok) ==
    /\ a_phase = "rows"
    /\ a_row_number = Len(s_rows)
    /\ failed_write_ok
    /\ a_phase' = "saved"
    /\ s_saved' \in IF save_ok \/ s_analyzed = <<>> THEN {s_analyzed}
                    ELSE ProperPrefixes(s_analyzed)
    /\ a_row' = <<>>
    /\ UNCHANGED <<contacts, existing_contacts, a_row_number, a_saved,
                   execVars, s_headers, s_rows, s_api_key, s_mode, s_status,
                   s_stats, s_writes, s_mapping, s_analyzed, s_ai, s_error,
                   s_resume, leaseVars, pollerVars, routerVars, dateVars>>

\* Step 5 of _analyze_job: save_import_rows stores the analysed rows with one
\* executemany; when it raises, after storing none or some of the rows, the
\* except branch of _process_job runs and the routed status is never
\* written.  An empty list is stored without touching the database.
ScnSaveRows(save_ok, failed_write_ok) ==
    /\ a_phase = "rows"
    /\ a_row_number = Len(s_rows)
    /\ IF save_ok \/ s_analyzed = <<>>
       THEN /\ failed_write_ok
            /\ a_phase' = "saved"
            /\ s_saved' = s_analyzed
            /\ UNCHANGED <<s_status, s_writes, s_error>>
       ELSE /\ a_phase' = "failed"
            /\ s_saved' \in ProperPrefixes(s_analyzed)
            /\ FailedWriteOf("store error", failed_write_ok)
    /\ a_row' = <<>>
    /\ UNCHANGED <<contacts, existing_contacts, a_row_number, a_saved,
                   execVars, s_headers, s_rows, s_api_key, s_mode, s_stats,
                   s_mapping, s_analyzed, s_ai, s_resume, leaseVars,
                   pollerVars, routerVars, dateVars>>

\* Step 6 of _analyze_job: the stats are computed from the analysed rows and
\* the routed status written with them; when that write raises the except
\* branch of _process_job runs.
ScnAnalysisDone(write_ok, failed_write_ok) ==
    /\ a_phase = "saved"
    /\ LET stats == AnalysisStats(s_analyzed)
           next == ModeRouter(s_mode, stats.duplicate_count,
                              stats.conflict_count) IN
       IF write_ok
       THEN /\ failed_write_ok
            /\ a_phase' = "done"
            /\ s_status' = IF next = NULL THEN s_status ELSE next
            /\ s_stats' = IF next = NULL THEN s_stats ELSE <<stats>>
            /\ s_writes' = IF next = NULL THEN s_writes ELSE s_writes + 1
            /\ UNCHANGED s_error
       ELSE /\ a_phase' = "failed"
            /\ FailedWriteOf("store error", failed_write_ok)
            /\ UNCHANGED s_stats
    /\ UNCHANGED <<contacts, existing_contacts, a_row_number, a_saved, a_row,
                   execVars, s_headers, s_rows, s_api_key, s_mode, s_mapping,
                   s_analyzed, s_saved, leaseVars, pollerVars, routerVars,
                   dateVars, s_ai, s_resume>>

\* What the reviewer may decide for a duplicate or conflict row.
ReviewDecisions == {NULL, "skip", "create", "update"}

\* The reviewer's decision as the row carries it (none before a review).
DecisionOf(row) == IF "decision" \in DOMAIN row THEN row.decision ELSE NULL

\* The reviewer goes through a job waiting in pending_review, leaves a
\* decision (or none) on its duplicate and conflict rows and releases the
\* job for execution.
ScnReviewApproves ==
    /\ a_phase = "done"
    /\ s_status = "pending_review"
    /\ s_status' = "processing"
    /\ \E decisions \in [DOMAIN s_saved -> ReviewDecisions] :
         /\ \A i \in DOMAIN s_saved :
               s_saved[i].status = "new" => decisions[i] = NULL
         /\ s_saved' = [i \in DOMAIN s_saved |->
                          [row_number |-> s_saved[i].row_number,
                           mapped_data |-> s_saved[i].mapped_data,
                           status |-> s_saved[i].status,
                           matched_contact_id |-> s_saved[i].matched_contact_id,
                           match_confidence |-> s_saved[i].match_confidence,
                           conflicts |-> s_saved[i].conflicts,
                           decision |-> decisions[i]]]
    /\ UNCHANGED <<contacts, analysisVars, execVars, s_analyzed, s_headers, s_rows,
                   s_api_key, s_mode, s_stats, s_writes, s_mapping,
                   leaseVars, pollerVars, routerVars, dateVars,
                   s_ai, s_error, s_resume>>

\* get_import_rows_for_processing: the job's rows in row_number order,
\* WHERE decision IS NULL OR decision != 'skip'.
RowsForProcessing(rows) ==
    SelectSeq(rows, LAMBDA r : DecisionOf(r) # "skip")

\* The job is claimed in status processing and execute_import fetches its
\* rows ([] when the select raises).
ScnExecFetch(fetch_ok) ==
    /\ a_phase = "done"
    /\ s_status = "processing"
    /\ x_phase = "idle"
    /\ x_n' = IF fetch_ok THEN Len(RowsForProcessing(s_saved)) ELSE 0
    /\ x_phase' = "loop"
    /\ x_stats' = ZeroStats
    /\ UNCHANGED <<contacts, analysisVars, x_row, x_pending, x_inserted,
                   x_last, x_results, notImport>>

\* for row in rows: the next fetched row.
ScnExecNextRow ==
    /\ x_phase = "loop"
    /\ Len(x_results) < x_n
    /\ LET saved == RowsForProcessing(s_saved)[Len(x_results) + 1] IN
       x_row' = << [row_number |-> saved.row_number,
                    mapped_data |-> saved.mapped_data,
                    status |-> saved.status,
                    matched_contact_id |-> saved.matched_contact_id,
                    decision |-> DecisionOf(saved),
                    overwrite_fields |-> NoReview.overwrite_fields] >>
    /\ x_phase' = "act"
    /\ UNCHANGED <<contacts, analysisVars, x_n, x_pending, x_stats,
                   x_inserted, x_last, x_results, notImport>>

\* _execute_job after execute_import returned: completed is written with
\* the created, updated and skipped counts.
ScnExecuteDone(write_ok, failed_write_ok) ==
    /\ x_phase = "returned"
    /\ IF write_ok
       THEN /\ failed_write_ok
            /\ x_phase' = "done"
            /\ s_status' = "completed"
            /\ s_stats' = << [created_count |-> x_stats.created,
                              updated_count |-> x_stats.updated,
                              skipped_count |-> x_stats.skipped] >>
            /\ s_writes' = s_writes + 1
            /\ UNCHANGED s_error
       ELSE /\ x_phase' = "failed"
            /\ FailedWriteOf("store error", failed_write_ok)
            /\ UNCHANGED s_stats
    /\ UNCHANGED <<contacts, analysisVars, x_n, x_row, x_pending, x_stats,
                   x_inserted, x_last, x_results, s_analyzed, s_headers, s_rows,
                   s_api_key, s_mode, s_mapping, s_saved, leaseVars,
                   pollerVars, routerVars, dateVars,
                   s_ai, s_resume>>

\* execute_import raised: the except branch of _process_job.
ScnExecuteFailed(failed_write_ok) ==
    /\ x_phase = "raised"
    /\ x_phase' = "failed"
    /\ FailedWriteOf("store error", failed_write_ok)
    /\ UNCHANGED <<contacts, analysisVars, x_n, x_row, x_pending, x_stats,
                   x_inserted, x_last, x_results, s_analyzed, s_headers, s_rows,
                   s_api_key, s_mode, s_stats, s_mapping, s_saved, leaseVars,
                   pollerVars, routerVars, dateVars,
                   s_ai, s_resume>>

ScnNext ==
    \/ \E ai_ok \in BOOLEAN : ScnMapColumns(ai_ok)
    \/ \E save_ok, failed_write_ok \in BOOLEAN :
            ScnSaveMapping(save_ok, failed_write_ok)
    \/ LoadContacts
    \/ LoadContactsFails
    \/ \E role \in VALID_ROLES \cup {NONE} : ScnAnalyzeRow(role)
    \/ \E save_ok, failed_write_ok \in BOOLEAN :
            ScnSaveRows(save_ok, failed_write_ok)
    \/ \E write_ok, failed_write_ok \in BOOLEAN :
            ScnAnalysisDone(write_ok, failed_write_ok)
    \/ ScnReviewApproves
    \/ \E fetch_ok \in BOOLEAN : ScnExecFetch(fetch_ok)
    \/ ScnExecNextRow
    \/ ExecCreate
    \/ ExecCreateRaises
    \/ ExecUpdate
    \/ ExecUpdateRaises
    \/ ExecRecord
    \/ ExecRecordRaises
    \/ ExecExcept
    \/ ExecExceptRaises
    \/ ExecReturn
    \/ \E write_ok, failed_write_ok \in BOOLEAN :
            ScnExecuteDone(write_ok, failed_write_ok)
    \/ \E failed_write_ok \in BOOLEAN : ScnExecuteFailed(failed_write_ok)

SpecScenario == ScnInit /\ [][ScnNext]_vars

\* The analysis runs alone, for a user who may also have a namesake of a
\* row of the file among the contacts.
SnapshotInit == ScnStart /\ contacts \in ScenarioContacts \cup {<<Namesake>>}

SnapshotNext ==
    \/ \E ai_ok \in BOOLEAN : ScnMapColumns(ai_ok)
    \/ \E save_ok, failed_write_ok \in BOOLEAN :
            ScnSaveMapping(save_ok, failed_write_ok)
    \/ LoadContacts
    \/ LoadContactsFails
    \/ \E role \in VALID_ROLES \cup {NONE} : ScnAnalyzeRow(role)
    \/ \E save_ok, failed_write_ok \in BOOLEAN :
            ScnSaveRows(save_ok, failed_write_ok)
    \/ \E write_ok, failed_write_ok \in BOOLEAN :
            ScnAnalysisDone(write_ok, failed_write_ok)

SpecSnapshot == SnapshotInit /\ [][SnapshotNext]_vars

\* The outcome update_import_row_result recorded for a row in this run
\* (NULL: none).
RecordedStatus(row_number) ==
    LET written == {i \in DOMAIN x_results :
                      /\ x_results[i].row_number = row_number
                      /\ x_results[i].status # NULL} IN
    IF written = {} THEN NULL ELSE x_results[SetMax(written)].status

\* An update of the result that also clears the row's match.
StoredRows_ClearsMatch ==
    [i \in DOMAIN s_saved |->
        IF RecordedStatus(s_saved[i].row_number) = NULL THEN s_saved[i]
        ELSE [s_saved[i] EXCEPT
                 !.status = RecordedStatus(s_saved[i].row_number),
                 !.matched_contact_id = NULL]]

\* The job's rows as contact_import_rows holds them: what analysis saved
\* and the review decided, with SET status = $1 of
\* update_import_row_result applied for the rows this run has recorded.
StoredRows ==
    [i \in DOMAIN s_saved |->
        IF RecordedStatus(s_saved[i].row_number) = NULL THEN s_saved[i]
        ELSE [s_saved[i] EXCEPT
                 !.status = RecordedStatus(s_saved[i].row_number)]]

\* A chain whose remaining case creates the contact.
ExecNoBranch_Recreates ==
    /\ x_phase = "act"
    /\ RowAction(x_row[1].status, x_row[1].decision,
                 x_row[1].matched_contact_id) = "none"
    /\ x_results' = Append(x_results, [row_number |-> x_row[1].row_number,
                                       status |-> NULL,
                                       error |-> NULL])
    /\ x_inserted' = x_inserted + 1
    /\ x_phase' = "loop"
    /\ x_row' = <<>>
    /\ UNCHANGED <<contacts, analysisVars, x_n, x_pending, x_stats,
                   x_last, notImport>>

\* A row whose status is none of new, duplicate, conflict: no branch of
\* the if / elif chain is entered, nothing is created, updated, written or
\* counted, and the loop goes on.
ExecNoBranch ==
    /\ x_phase = "act"
    /\ RowAction(x_row[1].status, x_row[1].decision,
                 x_row[1].matched_contact_id) = "none"
    /\ x_results' = Append(x_results, [row_number |-> x_row[1].row_number,
                                       status |-> NULL,
                                       error |-> NULL])
    /\ x_phase' = "loop"
    /\ x_row' = <<>>
    /\ UNCHANGED <<contacts, analysisVars, x_n, x_pending, x_stats,
                   x_inserted, x_last, notImport>>

\* The job is still in status processing although a worker has been through
\* its execution: the worker stopped inside execute_import, or the final
\* status write and the failed write were both lost.  The job is claimed
\* again and _process_job starts the execution phase anew on the rows as
\* the table holds them.
ScnResume ==
    /\ s_resume = <<>>
    /\ s_status = "processing"
    /\ x_phase \in {"loop", "act", "record", "except", "returned", "raised",
                    "failed"}
    /\ s_saved' = StoredRows
    /\ s_resume' =
          << [contacts |-> contacts,
              inserted |-> x_inserted,
              recorded |-> \A i \in DOMAIN RowsForProcessing(StoredRows) :
                              RowsForProcessing(StoredRows)[i].status
                                  \in {"imported", "skipped"}] >>
    /\ x_phase' = "idle"
    /\ x_n' = 0
    /\ x_row' = <<>>
    /\ x_pending' = NULL
    /\ x_stats' = ZeroStats
    /\ x_last' = <<>>
    /\ x_results' = <<>>
    /\ UNCHANGED <<contacts, analysisVars, x_inserted, s_analyzed, s_headers, s_rows,
                   s_api_key, s_mode, s_status, s_stats, s_writes, s_mapping,
                   s_ai, s_error, leaseVars, pollerVars, routerVars, dateVars>>

\* An import of a three-column file without a classifier.
ResumeInit ==
    /\ ScnInit
    /\ ~s_api_key
    /\ Len(s_headers) = 3

ResumeNext ==
    \/ ScnNext
    \/ ExecNoBranch
    \/ ScnResume

SpecResume == ResumeInit /\ [][ResumeNext]_vars

(***************************************************************************)
(* Properties of the end-to-end run                                        *)
(***************************************************************************)

\* The CSV with headers Nombre, Apellido, Correo and the single row
\* Ana, Gomez, ana@x.com, imported for a user without contacts.
AnaScenario ==
    /\ s_headers = <<<<"N", "o", "m", "b", "r", "e">>, <<"A", "p", "e", "l", "l", "i", "d", "o">>, <<"C", "o", "r", "r", "e", "o">>>>
    /\ s_rows = << <<<<"A", "n", "a">>, <<"G", "o", "m", "e", "z">>, <<"a", "n", "a", "@", "x", ".", "c", "o", "m">>>> >>
    /\ contacts = <<>>

\* The run's store calls of the execution all succeeded.
AnaExecuted ==
    /\ s_mode = "turbo"
    /\ x_phase = "returned"
    /\ x_n = 1
    /\ x_results[1].status = "imported"

AnalysisCompleted == a_phase = "done" /\ x_phase = "idle"

\* The number of saved rows with the given disposition.
SavedWith(status) ==
    Cardinality({i \in DOMAIN s_saved : s_saved[i].status = status})

\* C18: an analysis run that completes without error has written the job
\* status exactly once, to processing or pending_review, together with the
\* aggregate stats of the analysed rows; the job is not left in analyzing.
C18_OneRoutedWrite ==
    AnalysisCompleted =>
        /\ s_writes = 1
        /\ s_status \in {"processing", "pending_review"}
        /\ s_status # "analyzing"
        /\ Len(s_stats) = 1
        /\ s_stats[1].total_rows = Len(s_saved)
        /\ s_stats[1].new_count = SavedWith("new")
        /\ s_stats[1].duplicate_count = SavedWith("duplicate")
        /\ s_stats[1].conflict_count = SavedWith("conflict")

\* An analysis that found a row matching a contact ended in pending_review,
\* and nothing has touched the job since.
C18_Witness ==
    /\ AnalysisCompleted
    /\ s_status = "pending_review"
    /\ s_writes = 1
    /\ Len(s_saved) >= 1
    /\ s_stats[1].duplicate_count + s_stats[1].conflict_count >= 1

(***************************************************************************)
(* The action taken for a fetched row                                      *)
(***************************************************************************)

SkipDecided ==
    {i \in DOMAIN s_saved : /\ s_saved[i].status \in {"duplicate", "conflict"}
                            /\ DecisionOf(s_saved[i]) = "skip"}

\* C20 as stated: when execute_import has returned, every duplicate or
\* conflict row decided skip is marked skipped and counted in skipped, and
\* no contact was created or updated for it.
C20_SkipMarkedAndCounted ==
    x_phase = "returned" =>
        /\ \A i \in SkipDecided :
              \E k \in DOMAIN x_results :
                 /\ x_results[k].row_number = s_saved[i].row_number
                 /\ x_results[k].status = "skipped"
                 /\ x_results[k].error = NULL
        /\ x_stats.skipped = Cardinality(SkipDecided)

(***************************************************************************)
(* The final stats of a job                                                *)
(***************************************************************************)

\* C21 as stated: when the execution phase has ended, the job is completed
\* and its persisted stats hold the four counters execute_import returned:
\* created, updated, skipped and errors.
C21_FourCountersPersisted ==
    x_phase = "done" =>
        /\ s_status = "completed"
        /\ Len(s_stats) = 1
        /\ s_stats[1].created_count = x_stats.created
        /\ s_stats[1].updated_count = x_stats.updated
        /\ s_stats[1].skipped_count = x_stats.skipped
        /\ \E f \in DOMAIN s_stats[1] \
                      {"created_count", "updated_count", "skipped_count"} :
              s_stats[1][f] = x_stats.errors

(***************************************************************************)
(* Conflicts on columns the snapshot does not select                       *)
(***************************************************************************)

\* The role column of the contacts table, which create_contact fills and
\* get_user_contacts_for_matching does not select.
ContactRoleColumn(id) ==
    CASE id = "k1" -> <<"s", "e", "l", "l", "e", "r">>
      [] id = "k3" -> <<"b", "u", "y", "e", "r">>
      [] OTHER -> NONE

\* The value of a conflict field on the stored contact with the given id.
StoredValue(id, field) ==
    IF field = "role" THEN ContactRoleColumn(id)
    ELSE LET i == CHOOSE k \in DOMAIN contacts : contacts[k].id = id IN
         contacts[i][field]

\* C22 as stated: for a matched row, every field of the fixed set that has
\* a value in the mapped data and on the matched contact, the two differing
\* once trimmed and lower-cased, yields one conflict entry, and the row is
\* classified conflict; so for a differing role.
C22_ConflictForEveryField ==
    (a_row # <<>> /\ a_row[1].matched_contact_id # NULL) =>
        \A i \in DOMAIN ConflictFields :
           LET f == ConflictFields[i]
               new == a_row[1].mapped_data[f]
               old == StoredValue(a_row[1].matched_contact_id, f) IN
           (/\ Truthy(new) /\ Truthy(old)
            /\ Lower(Strip(PyStr(new))) # Lower(Strip(PyStr(old)))) =>
              /\ a_row[1].status = "conflict"
              /\ Cardinality({k \in DOMAIN a_row[1].conflicts :
                                a_row[1].conflicts[k].field = f}) = 1

(***************************************************************************)
(* Rows without a name                                                     *)
(***************************************************************************)

\* The cell of CSV row n in the last non-blank column mapped to the field.
MappedCell(n, field) ==
    LET I == {i \in DOMAIN s_mapping :
                /\ s_mapping[i] = field
                /\ \E k \in DOMAIN s_rows[n][i] : s_rows[n][i][k] # " "} IN
    IF I = {} THEN <<>> ELSE s_rows[n][SetMax(I)]

\* The CSV rows analysed so far that have a first and a last name.
NamedRows ==
    {n \in 1..a_row_number :
        MappedCell(n, "first_name") # <<>> /\ MappedCell(n, "last_name") # <<>>}

\* C23: every ImportRow emitted by analyze_rows has a non-empty mapped
\* first_name and last_name; a CSV row lacking one of them is dropped: it is
\* not emitted, not persisted and not counted in the analysis stats.
C23_NamelessRowsDropped ==
    /\ \A row \in Range(s_analyzed) \cup Range(s_saved) :
          /\ row.mapped_data.first_name \notin {NONE, <<>>}
          /\ row.mapped_data.last_name \notin {NONE, <<>>}
    /\ a_phase \in {"rows", "saved", "done"} =>
          /\ {s_analyzed[i].row_number : i \in DOMAIN s_analyzed} = NamedRows
          /\ Len(s_analyzed) = Cardinality(NamedRows)
          /\ a_saved = Cardinality(NamedRows)
    /\ a_phase \in {"saved", "done"} =>
          /\ {s_saved[i].row_number : i \in DOMAIN s_saved} = NamedRows
          /\ Len(s_saved) = Cardinality(NamedRows)
    /\ AnalysisCompleted => s_stats[1].total_rows = Cardinality(NamedRows)

\* A file of two rows, one of them without a last name, was analysed: one
\* row is saved and counted.
C23_Witness ==
    /\ AnalysisCompleted
    /\ Len(s_rows) = 2
    /\ NamedRows = {2}
    /\ Len(s_saved) = 1 /\ s_saved[1].row_number = 2
    /\ s_stats[1].total_rows = 1

\* C24: the heuristic pass maps no two headers to the same field, and gives
\* each header the first field of the table, in the table's order, one of
\* whose keywords contains the trimmed lower-cased header or is contained in
\* it and that no earlier header received (none: the header stays
\* unmapped); without a classifier call that is the mapping of the job.
\* Stated where map_columns_with_ai has just returned.
C24_HeuristicInjective ==
    LET m == HeuristicColumnMapping(s_headers, <<>>)
        Candidates(i) ==
            {k \in DOMAIN CONTACT_FIELDS :
                /\ \E w \in DOMAIN CONTACT_FIELDS[k].keywords :
                      \/ IsSubstring(CONTACT_FIELDS[k].keywords[w],
                                     Strip(Lower(s_headers[i])))
                      \/ IsSubstring(Strip(Lower(s_headers[i])),
                                     CONTACT_FIELDS[k].keywords[w])
                /\ \A j \in 1..(i - 1) : m[j] # CONTACT_FIELDS[k].field} IN
    a_phase = "mapped" =>
        /\ DOMAIN m = DOMAIN s_headers
        /\ \A i, j \in DOMAIN m : (i # j /\ m[i] # NULL) => m[i] # m[j]
        /\ \A i \in DOMAIN m :
              IF Candidates(i) = {} THEN m[i] = NULL
              ELSE /\ \E k \in Candidates(i) :
                         /\ m[i] = CONTACT_FIELDS[k].field
                         /\ \A l \in Candidates(i) : k <= l
        /\ s_ai = "not called" => s_mapping = m

\* A file whose second header is found inside a keyword and whose first
\* candidate field is already taken has been mapped.
C24_Witness ==
    /\ a_phase = "mapped"
    /\ s_headers = << <<"N", "o", "m", "b", "r", "e">>, <<"N", "a", "m", "e">> >>
    /\ s_mapping = <<"first_name", "last_name">>

\* C25: whatever the classifier answers, the mapping map_columns_with_ai
\* returns keeps every heuristically mapped header on its field and gives
\* no field of the heuristic pass to another header.
C25_HeuristicNeverOverridden ==
    LET m == HeuristicColumnMapping(s_headers, <<>>) IN
    a_phase = "mapped" =>
        \A i \in DOMAIN m :
            /\ m[i] # NULL => s_mapping[i] = m[i]
            /\ (m[i] = NULL /\ s_mapping[i] # NULL) =>
                   s_mapping[i] \notin Range(m)

\* C26: when the classifier's call fails, map_columns_with_ai returns
\* exactly the heuristic mapping and raises nothing: the analysis goes on
\* to saving the mapping, the job's status and error message untouched.
C26_ClassifierFailureKeepsHeuristic ==
    [][(a_phase = "map" /\ s_ai' = "failed") =>
          /\ s_mapping' = HeuristicColumnMapping(s_headers, <<>>)
          /\ a_phase' = "mapped"
          /\ s_status' = s_status /\ s_error' = s_error
          /\ s_writes' = s_writes]_vars

\* The classifier was called for a file with an unmapped header and failed.
C26_Witness ==
    /\ a_phase = "mapped"
    /\ s_ai = "failed"
    /\ s_api_key
    /\ NULL \in Range(s_mapping)

\* The analysis is past the look for the required fields with a mapping
\* that gives first_name or last_name to no header.
RequiredFieldUnmapped ==
    /\ s_mapping # <<>>
    /\ a_phase # "mapped"
    /\ ~({"first_name", "last_name"} \subseteq Range(s_mapping))

C27_RerunSkipsRecordedRows ==
    /\ [][(/\ s_resume # <<>>
            /\ x_phase = "act"
            /\ x_row[1].status \in {"imported", "skipped"}) =>
              /\ contacts' = contacts
              /\ x_inserted' = x_inserted
              /\ x_stats' = x_stats
              /\ x_phase' = "loop"]_vars
    /\ []((s_resume # <<>> /\ s_resume[1].recorded) =>
              /\ contacts = s_resume[1].contacts
              /\ x_inserted = s_resume[1].inserted)

\* A second execution has been through rows that the first one had created
\* and recorded.
C27_Witness ==
    /\ s_resume # <<>>
    /\ s_resume[1].recorded
    /\ s_resume[1].inserted > 0
    /\ x_phase = "returned"
    /\ x_n > 0

\* C29 as stated: the rows of the table keep the mapped data, the matched
\* contact and the disposition (new, duplicate, conflict) analysis gave
\* them, whatever execution has recorded.
C29_Original ==
    \A i \in DOMAIN s_saved :
        /\ StoredRows[i].mapped_data = s_saved[i].mapped_data
        /\ StoredRows[i].matched_contact_id = s_saved[i].matched_contact_id
        /\ StoredRows[i].status = s_saved[i].status
        /\ StoredRows[i].status \in {"new", "duplicate", "conflict"}

\* C29 amended: execution leaves every column of a row as analysis and the
\* review left it, the mapped data and the matched contact among them,
\* except the status: for a row whose result it recorded, the disposition
\* is replaced by the outcome imported or skipped; the other rows keep
\* their disposition.  Only fetched rows get a result.
C29_OnlyStatusReplaced ==
    \A i \in DOMAIN s_saved :
        /\ DOMAIN StoredRows[i] = DOMAIN s_saved[i]
        /\ \A f \in DOMAIN s_saved[i] \ {"status"} :
              StoredRows[i][f] = s_saved[i][f]
        /\ s_saved[i].status \in {"new", "duplicate", "conflict"}
        /\ IF \E k \in DOMAIN x_results :
                 x_results[k].row_number = s_saved[i].row_number
           THEN /\ StoredRows[i].status \in {"imported", "skipped"}
                /\ DecisionOf(s_saved[i]) # "skip"
           ELSE StoredRows[i].status = s_saved[i].status

\* The result of a matched row has been recorded.
C29_Witness ==
    \E i \in DOMAIN s_saved :
        /\ s_saved[i].status = "duplicate"
        /\ s_saved[i].matched_contact_id # NULL
        /\ StoredRows[i].status = "imported"

\* C28: a job left in processing with no claimant handling it (the worker
\* crashed or was stopped inside the handler, or its final status write was
\* lost) eventually leaves processing: it becomes claimable again or
\* reaches completed or failed.
C28_LeaseTimeBounded ==
    \A j \in QJobs : (j \in Orphans) ~> (q_status[j] # "processing")

\* C31: once stop() has been requested the poll loop is over: the task has
\* left the loop, it claims no job and writes no status any more, and it is
\* not started again; a stop that finds the task in the poll-interval
\* sleep or in a backoff sleep ends the loop from there, without the sleep
\* elapsing.
C31_StopEndsLoop ==
    /\ []((~is_running /\ pc # "not_started") => pc = "exited")
    /\ [][pc = "exited" =>
             /\ pc' = "exited"
             /\ ~is_running'
             /\ j_status' = j_status
             /\ j_error' = j_error
             /\ cur' = cur]_vars
    /\ [][(/\ pc \in {"sleep_poll", "sleep_10", "sleep_60"}
           /\ is_running /\ ~is_running') =>
             /\ pc' = "exited"
             /\ consecutive_errors' = consecutive_errors]_vars

\* The poller was stopped during a backoff with jobs still to claim.
C31_Witness ==
    /\ pc = "exited"
    /\ ~is_running
    /\ consecutive_errors > 0
    /\ PClaimable # {}

(***************************************************************************)
(* Dates: _apply_mapping for date_of_birth and _parse_date                 *)
(***************************************************************************)
Digits == <<"0", "1", "2", "3", "4", "5", "6", "7", "8", "9">>

IsDigit(ch) == \E i \in DOMAIN Digits : Digits[i] = ch

\* int() of a digit
DigitValue(ch) == (CHOOSE i \in DOMAIN Digits : Digits[i] = ch) - 1

\* int() of a string of digits
RECURSIVE IntOf(_)
IntOf(str) ==
    IF str = <<>> THEN 0
    ELSE 10 * IntOf(SubSeq(str, 1, Len(str) - 1)) + DigitValue(str[Len(str)])

\* The patterns of _parse_date, in the list's order: the regular expression
\* (the place of the year, the separator, the digits of the year) and the
\* strptime format that goes with it.
patterns ==
    << [order |-> "ymd", sep |-> "-", ylen |-> 4],    \* %Y-%m-%d
       [order |-> "dmy", sep |-> "/", ylen |-> 4],    \* %d/%m/%Y
       [order |-> "dmy", sep |-> "-", ylen |-> 4],    \* %d-%m-%Y
       [order |-> "dmy", sep |-> "/", ylen |-> 2] >>  \* %d/%m/%y

\* The positions of the three fields and of the two separators in a value
\* laid out as the pattern says.
Layout(p) ==
    IF p.order = "ymd"
    THEN [year |-> <<1, 4>>, month |-> <<6, 7>>, day |-> <<9, 10>>,
          seps |-> {5, 8}, len |-> 10]
    ELSE [day |-> <<1, 2>>, month |-> <<4, 5>>, year |-> <<7, 6 + p.ylen>>,
          seps |-> {3, 6}, len |-> 6 + p.ylen]

\* A match that has to cover the whole value.
ReMatch_Whole(p, value) ==
    /\ Len(value) = Layout(p).len
    /\ \A i \in 1..Layout(p).len :
          IF i \in Layout(p).seps THEN value[i] = p.sep
          ELSE IsDigit(value[i])

\* re.match(pattern, value): the pattern matches at the start of the value;
\* what follows the match is not looked at.
ReMatch(p, value) ==
    /\ Len(value) >= Layout(p).len
    /\ \A i \in 1..Layout(p).len :
          IF i \in Layout(p).seps THEN value[i] = p.sep
          ELSE IsDigit(value[i])

IsLeap(year) ==
    year % 4 = 0 /\ (year % 100 # 0 \/ year % 400 = 0)

DaysInMonth(year, month) ==
    IF month = 2 THEN (IF IsLeap(year) THEN 29 ELSE 28)
    ELSE IF month \in {4, 6, 9, 11} THEN 30 ELSE 31

\* datetime.strptime(value, fmt) for a value re.match accepted: the format
\* has to consume the whole value, %d is 01..31, %m is 01..12, a %y year is
\* 2000 + yy up to 68 and 1900 + yy from 69, and the day has to exist in
\* the month.  <<>> stands for ValueError.
Strptime(p, value) ==
    LET l == Layout(p)
        day == IntOf(SubSeq(value, l.day[1], l.day[2]))
        month == IntOf(SubSeq(value, l.month[1], l.month[2]))
        yy == IntOf(SubSeq(value, l.year[1], l.year[2]))
        year == IF p.ylen = 4 THEN yy
                ELSE IF yy <= 68 THEN 2000 + yy ELSE 1900 + yy IN
    IF /\ Len(value) = l.len
       /\ year >= 1
       /\ month \in 1..12
       /\ day \in 1..DaysInMonth(year, month)
    THEN << [year |-> year, month |-> month, day |-> day] >>
    ELSE <<>>

\* The number n written with the given count of digits, zeros in front.
RECURSIVE Padded(_, _)
Padded(n, width) ==
    IF width = 0 THEN <<>>
    ELSE Append(Padded(n \div 10, width - 1), Digits[(n % 10) + 1])

\* dt.strftime('%Y-%m-%d')
Strftime(dt) ==
    Padded(dt.year, 4) \o <<"-">> \o Padded(dt.month, 2) \o <<"-">>
        \o Padded(dt.day, 2)

\* The cells of a date column: two digits, a separator, two digits, the
\* same separator and a year of two or four digits, or the year first, and
\* some cells of another make.
DayTexts == {<<"1", "5">>, <<"3", "1">>, <<"2", "9">>, <<"0", "0">>}
MonthTexts == {<<"0", "1">>, <<"0", "2">>, <<"1", "3">>}
YearTexts == {<<"2", "0", "0", "0">>, <<"1", "9", "9", "9">>, <<"2", "0", "0", "1">>, <<"0", "0">>, <<"6", "9">>}
Separators == {"/", "-", "."}

DateValues ==
    {d \o <<x>> \o m \o <<x>> \o y :
        d \in DayTexts, m \in MonthTexts, y \in YearTexts, x \in Separators}
    \cup {y \o <<x>> \o m \o <<x>> \o d :
        d \in DayTexts, m \in MonthTexts,
        y \in {t \in YearTexts : Len(t) = 4}, x \in Separators}
    \cup { <<"h", "e", "l", "l", "o">>, <<"1", "5", "/", "1", "/", "2", "0", "0", "0">>, <<"1", "5", "/", "0", "1", "/", "2", "0", "0", "0", "x">>, <<"1", "5", "/", "0", "1", "/", "2", "0", "0">> }

DateInit ==
    /\ d_value \in DateValues
    /\ d_k = 1
    /\ d_parsed = NULL
    /\ d_mapped = <<>>
    /\ d_pc = "patterns"
    /\ LeaseIdle /\ PollerIdle /\ RouterIdle /\ ImportIdle /\ ScenarioIdle

\* for pattern, fmt in patterns: the pattern matches and strptime accepts
\* the value (the date is returned), or the loop goes on to the next one.
TryPattern ==
    /\ d_pc = "patterns"
    /\ d_k <= Len(patterns)
    /\ IF /\ ReMatch(patterns[d_k], d_value)
          /\ Strptime(patterns[d_k], d_value) # <<>>
       THEN /\ d_parsed' = Strftime(Strptime(patterns[d_k], d_value)[1])
            /\ d_pc' = "returned"
            /\ UNCHANGED d_k
       ELSE /\ d_k' = d_k + 1
            /\ UNCHANGED <<d_parsed, d_pc>>
    /\ UNCHANGED <<d_value, d_mapped, leaseVars, pollerVars, routerVars,
                   importVars, scenarioVars>>

\* return None
ReturnNone ==
    /\ d_pc = "patterns"
    /\ d_k > Len(patterns)
    /\ d_parsed' = NONE
    /\ d_pc' = "returned"
    /\ UNCHANGED <<d_value, d_k, d_mapped, leaseVars, pollerVars, routerVars,
                   importVars, scenarioVars>>

\* A mapping that stores whatever _parse_date returned.
ApplyDateField_Unchecked ==
    /\ d_pc = "returned"
    /\ d_mapped' = << [date_of_birth |-> d_parsed] >>
    /\ d_pc' = "mapped"
    /\ UNCHANGED <<d_value, d_k, d_parsed, leaseVars, pollerVars, routerVars,
                   importVars, scenarioVars>>

\* if parsed_date: mapped[contact_field] = parsed_date
ApplyDateField ==
    /\ d_pc = "returned"
    /\ d_mapped' = IF Truthy(d_parsed)
                   THEN << [date_of_birth |-> d_parsed] >>
                   ELSE <<>>
    /\ d_pc' = "mapped"
    /\ UNCHANGED <<d_value, d_k, d_parsed, leaseVars, pollerVars, routerVars,
                   importVars, scenarioVars>>

DateNext ==
    \/ TryPattern
    \/ ReturnNone
    \/ ApplyDateField

SpecParseDate == DateInit /\ [][DateNext]_vars

\* A value of one of the four shapes: digits and separators as the pattern
\* has them, and nothing else.
AcceptedShape(value) ==
    \E k \in DOMAIN patterns : ReMatch_Whole(patterns[k], value)

\* C32: once the cell is mapped, each of 15/01/2000, 2000-01-15, 15-01-2000
\* and 15/01/00 has given date_of_birth 2000-01-15, and a cell of none of
\* the four accepted shapes has given no date_of_birth entry at all; an
\* entry, when there is one, is a date of ten characters.
C32_DatesNormalised ==
    d_pc = "mapped" =>
        /\ d_value \in { <<"1", "5", "/", "0", "1", "/", "2", "0", "0", "0">>, <<"2", "0", "0", "0", "-", "0", "1", "-", "1", "5">>, <<"1", "5", "-", "0", "1", "-", "2", "0", "0", "0">>,
                         <<"1", "5", "/", "0", "1", "/", "0", "0">> } =>
               d_mapped = << [date_of_birth |-> <<"2", "0", "0", "0", "-", "0", "1", "-", "1", "5">>] >>
        /\ ~AcceptedShape(d_value) => d_mapped = <<>>
        /\ d_mapped # <<>> =>
               /\ Len(d_mapped[1].date_of_birth) = 10
               /\ d_mapped[1].date_of_birth # NONE

\* The two-digit-year cell has been mapped, and so has a cell that is no
\* date.
C32_Witness ==
    /\ d_pc = "mapped"
    /\ d_value = <<"1", "5", "/", "0", "1", "/", "0", "0">>
    /\ d_k = Len(patterns)
    /\ d_mapped # <<>>

\* C33: every row that went through role deduction and on to matching
\* carries a role of the valid set, whatever the classifier's call did.
C33_EveryRowHasValidRole ==
    \A i \in DOMAIN s_saved : s_saved[i].mapped_data.role \in VALID_ROLES

\* C34: the import handler is routed by the claimed status alone.  A step
\* of the handler of a job claimed analyzing leaves it analyzing or writes
\* the routed status of the analysis; of a job claimed processing, leaves
\* it processing or writes completed; of a job claimed in any other status,
\* writes nothing to any job and goes back to the claim.  failed is written
\* by the except branch only, which the third case never enters.
C34_RoutedByStatus ==
    [][(pc = "handler" /\ p_kind = "import" /\ pc' # "exited") =>
          /\ \A j \in PJobs \ {cur} : j_status'[j] = j_status[j]
          /\ CASE cur_status = "analyzing" ->
                    j_status'[cur] \in {j_status[cur], "processing",
                                        "pending_review"}
               [] cur_status = "processing" ->
                    j_status'[cur] \in {j_status[cur], "completed"}
               [] OTHER ->
                    /\ j_status' = j_status
                    /\ j_error' = j_error
                    /\ raised' = raised
                    /\ pc' = "claim"]_vars

\* The handler holds a job that was handed out in pending_review.
C34_Witness ==
    /\ p_kind = "import"
    /\ pc = "handler"
    /\ cur_status = "pending_review"
    /\ j_status[cur] = "pending_review"

\* C35: in the labeling queue no step takes a job that is not pending back
\* to pending; a job in completed or failed keeps its status, error message
\* and retry count, is selected by no claim and held by no handler; a job
\* becomes failed with its retry count raised by one in the same step; and
\* no job is returned by more than one claim over the whole run.
C35_NeverBackToPending ==
    /\ [][\A j \in QJobs :
            /\ q_status[j] # "pending" => q_status'[j] # "pending"
            /\ q_status[j] \in {"completed", "failed"} =>
                  /\ q_status'[j] = q_status[j]
                  /\ q_error'[j] = q_error[j]
                  /\ q_retry'[j] = q_retry[j]
                  /\ returned'[j] = returned[j]
                  /\ \A c \in Claimants : tx'[c].row # j
            /\ (q_status[j] # "failed" /\ q_status'[j] = "failed") =>
                  q_retry'[j] = q_retry[j] + 1
            /\ q_retry'[j] # q_retry[j] => q_status'[j] = "failed"]_vars
    /\ [](\A j \in QJobs : returned[j] <= 1 /\ q_retry[j] <= 1)

\* A job has failed, with its retry counted, while claims go on.
C35_Witness ==
    \E j \in QJobs :
        /\ q_status[j] = "failed"
        /\ q_retry[j] = 1
        /\ \E c \in Claimants : tx[c].pc = "holding"


(***************************************************************************)
(* The rows are stored before the job is routed                            *)
(***************************************************************************)

\* Every row analyze_rows returned has its copy in the store, and the store
\* holds no other row of the job.
AllRowsSaved ==
    /\ Len(s_saved) = Len(s_analyzed)
    /\ \A i \in DOMAIN s_analyzed :
          /\ s_saved[i].row_number = s_analyzed[i].row_number
          /\ s_saved[i].mapped_data = s_analyzed[i].mapped_data
          /\ s_saved[i].status = s_analyzed[i].status
          /\ s_saved[i].matched_contact_id = s_analyzed[i].matched_contact_id

\* C36: in every analysis run all ImportRows of the job are persisted before
\* the job's status changes from analyzing to processing or pending_review:
\* the step that routes the job starts from a state where the rows are
\* stored, and in no reachable state is the job in processing or
\* pending_review while rows its analysis produced are unsaved.
C36_RowsSavedBeforeRouted ==
    /\ []((s_status \in {"processing", "pending_review"}) => AllRowsSaved)
    /\ [][(/\ s_status = "analyzing"
           /\ s_status' \in {"processing", "pending_review"})
             => AllRowsSaved]_vars

\* A file of two named rows was analysed, stored and routed to review.
C36_Witness ==
    /\ s_status = "pending_review"
    /\ a_phase = "done"
    /\ Len(s_analyzed) = 2
    /\ AllRowsSaved


(***************************************************************************)
(* A completed job and the outcomes of its rows                            *)
(***************************************************************************)

\* C37: whenever an import job is written completed, every row of the job
\* whose decision is not skip has a recorded outcome, imported or skipped,
\* including when the store fails while the rows are being fetched.
C37_CompletedMeansProcessed ==
    s_status = "completed" =>
        \A i \in DOMAIN s_saved :
            DecisionOf(s_saved[i]) # "skip" =>
                RecordedStatus(s_saved[i].row_number) \in {"imported", "skipped"}


(***************************************************************************)
(* The counters execute_import returns                                     *)
(***************************************************************************)

\* C38: at the end of an execution run the created counter equals the
\* number of contacts the run inserted into the contact store; no contact
\* is inserted for a row that ends up counted under errors or skipped.
C38_CreatedEqualsInserted ==
    x_phase = "returned" => x_stats.created = x_inserted


\* The sum of the four counters of execute_import.
CounterSum == x_stats.created + x_stats.updated + x_stats.skipped + x_stats.errors

\* C39: each row fetched for execution whose disposition is new, duplicate
\* or conflict increments exactly one of the counters created, updated,
\* skipped, errors: while the loop runs their sum is the number of rows
\* done, no step adds more than one, and when execute_import returns the
\* sum equals the number of rows fetched.
C39_OneCounterPerRow ==
    /\ [](x_phase \in {"loop", "act", "record", "except", "returned"} =>
             CounterSum = Len(x_results))
    /\ [](x_phase = "returned" => CounterSum = x_n)
    /\ [][(x_phase \in {"act", "record", "except"}) =>
             (\/ x_stats' = x_stats
              \/ \E c \in DOMAIN x_stats :
                    x_stats' = [x_stats EXCEPT ![c] = @ + 1])]_vars

\* Two rows were fetched, one created a contact and one failed: the run
\* returned created 1 and errors 1.
C39_Witness ==
    /\ x_phase = "returned"
    /\ x_n = 2
    /\ x_stats.created = 1
    /\ x_stats.errors = 1
    /\ \A i \in DOMAIN x_results : x_results[i].status \in {"imported", "skipped"}


(***************************************************************************)
(* Rows are classified against the snapshot only                           *)
(***************************************************************************)

\* The disposition, match and conflicts of an analysed row are those its
\* mapped data gives against the snapshot alone.
ClassifiedFromSnapshot(row) ==
    LET found == FindMatchingContact(row.mapped_data, existing_contacts)
        conflicts == IF found.match.id = NULL THEN <<>>
                     ELSE DetectConflicts(row.mapped_data, found.match) IN
    /\ row.matched_contact_id = found.match.id
    /\ row.match_confidence = found.confidence
    /\ row.conflicts = conflicts
    /\ row.status = IF found.match.id = NULL THEN "new"
                    ELSE Disposition(conflicts)

\* Two rows of the file with the same e-mail, which no contact of the
\* snapshot has.
ShareUnknownEmail(r1, r2) ==
    /\ r1.row_number # r2.row_number
    /\ Truthy(r1.mapped_data.email)
    /\ Lower(r1.mapped_data.email) = Lower(r2.mapped_data.email)
    /\ EmailMatch(r1.mapped_data, existing_contacts).id = NULL

\* C40 as stated: the disposition, match and conflicts computed for a row
\* depend only on that row's mapped data and on the contact snapshot, so two
\* rows of one CSV that share an e-mail not present among existing contacts
\* are both classified new.
C40_Original ==
    a_phase \in {"rows", "saved", "done"} =>
        /\ \A i \in DOMAIN s_analyzed : ClassifiedFromSnapshot(s_analyzed[i])
        /\ \A i, j \in DOMAIN s_analyzed :
              ShareUnknownEmail(s_analyzed[i], s_analyzed[j]) =>
                  s_analyzed[i].status = "new" /\ s_analyzed[j].status = "new"

\* C40 (amended): the disposition, match and conflicts computed for a row
\* depend only on that row's mapped data and on the contact snapshot loaded
\* once at the start of the run, so of two rows of one CSV that share an
\* e-mail not present among existing contacts neither is matched to the
\* other: each is new unless its own phone or full name matches a contact
\* of the snapshot, and then it is matched to that contact.
C40_ClassifiedFromSnapshot ==
    a_phase \in {"rows", "saved", "done"} =>
        /\ \A i \in DOMAIN s_analyzed : ClassifiedFromSnapshot(s_analyzed[i])
        /\ \A i, j \in DOMAIN s_analyzed :
              ShareUnknownEmail(s_analyzed[i], s_analyzed[j]) =>
                  \A r \in {s_analyzed[i], s_analyzed[j]} :
                      IF /\ PhoneMatch(r.mapped_data, existing_contacts).id = NULL
                         /\ NameMatch(r.mapped_data, existing_contacts).id = NULL
                      THEN r.status = "new" /\ r.matched_contact_id = NULL
                      ELSE /\ r.status \in {"duplicate", "conflict"}
                           /\ \E k \in DOMAIN existing_contacts :
                                 existing_contacts[k].id = r.matched_contact_id

\* Two rows with the same e-mail were analysed against a snapshot that holds
\* a contact, none with that e-mail, phone or name: both are new.
C40_Witness ==
    /\ a_phase = "done"
    /\ existing_contacts # <<>>
    /\ Len(s_analyzed) = 2
    /\ ShareUnknownEmail(s_analyzed[1], s_analyzed[2])
    /\ s_analyzed[1].status = "new" /\ s_analyzed[2].status = "new"

=============================================================================
